---------------------------- MODULE Spec2Model ----------------------------
(***************************************************************************)
(* Persona-driven PDF section analysis: heading classifier (1A.py),        *)
(* section content extractor (section_extractor.py), relevance scorer      *)
(* (relevance_scorer.py), section ranker (section_ranker.py) and the       *)
(* orchestrating pipeline (main.py).                                       *)
(*                                                                         *)
(* Text is a sequence of one-character strings, so that find, split,       *)
(* lower, strip, count and the substring test are computed on characters   *)
(* as Python computes them.  Fractions are exact rationals [num, den].     *)
(***************************************************************************)
EXTENDS Integers, Sequences, FiniteSets, TLC

VARIABLES
    call,                  \* name of the function applied last ("none" before any call)
    args,                  \* its arguments (the inputs drawn by Init)
    result,                \* its return value
    pc,                    \* process_documents: position in the pipeline
    persona,               \* process_documents: the persona, <<>> for None, else <<text>>
    job_to_be_done,        \* process_documents: the job, <<>> for None, else <<text>>
    pdf_files,             \* process_documents: the names of the existing documents, in order
    doc_idx,               \* process_documents: number of documents attempted so far
    all_sections,          \* process_documents: the accumulated section list
    failed_docs,           \* process_documents: indices of the documents whose extraction raised
    ranked_sections,       \* process_documents: result of rank_sections
    filtered_sections,     \* process_documents: result of filter_and_deduplicate_sections
    balanced_sections,     \* process_documents: result of balance_section_distribution
    sub_section_analysis,  \* process_documents: result of create_sub_section_analysis
    global_stats           \* HeadingOnlyPDFExtractor: self.global_stats, <<>> for {}

fnVars == <<call, args, result>>
pipeVars == <<pc, persona, job_to_be_done, pdf_files, doc_idx, all_sections, failed_docs, ranked_sections,
              filtered_sections, balanced_sections, sub_section_analysis, global_stats>>
vars == <<call, args, result, pc, persona, job_to_be_done, pdf_files, doc_idx, all_sections, failed_docs,
          ranked_sections, filtered_sections, balanced_sections, sub_section_analysis,
          global_stats>>

---------------------------------------------------------------------------
(* Python str primitives *)

UpperLetters == {"A", "B", "C", "D", "E", "F", "G", "H", "I", "J", "K", "L", "M",
                 "N", "O", "P", "Q", "R", "S", "T", "U", "V", "W", "X", "Y", "Z"}

LowerLetters == {"a", "b", "c", "d", "e", "f", "g", "h", "i", "j", "k", "l", "m",
                 "n", "o", "p", "q", "r", "s", "t", "u", "v", "w", "x", "y", "z"}

Digits == {"0", "1", "2", "3", "4", "5", "6", "7", "8", "9"}

UpperSeq == <<"A", "B", "C", "D", "E", "F", "G", "H", "I", "J", "K", "L", "M",
             "N", "O", "P", "Q", "R", "S", "T", "U", "V", "W", "X", "Y", "Z">>

LowerSeq == <<"a", "b", "c", "d", "e", "f", "g", "h", "i", "j", "k", "l", "m",
             "n", "o", "p", "q", "r", "s", "t", "u", "v", "w", "x", "y", "z">>

\* str.lower() on one character
LowerChar(c) ==
    IF c \in UpperLetters
    THEN LowerSeq[CHOOSE i \in 1..Len(UpperSeq) : UpperSeq[i] = c]
    ELSE c

\* a sequence given as a function on 1..n, with its items evaluated
Seq0(f, n) == IF n = 0 THEN <<>> ELSE SubSeq(f, 1, n)

\* str.lower()
Lower(s) == Seq0([i \in 1..Len(s) |-> LowerChar(s[i])], Len(s))

\* the regex class \s
IsSpace(c) == c \in {" ", "\n", "\t"}

\* the regex class \w
IsWordChar(c) == c \in UpperLetters \cup LowerLetters \cup Digits \cup {"_"}

\* the characters (or items) i..j of s, 1-based and inclusive, cut to the ends of
\* s as a Python slice is
Slice(s, i, j) ==
    LET lo == IF i < 1 THEN 1 ELSE i
        hi == IF j > Len(s) THEN Len(s) ELSE j
    IN  IF lo > hi THEN <<>> ELSE SubSeq(s, lo, hi)

\* t occurs in s starting at index i
MatchAt(s, t, i) ==
    /\ i >= 1
    /\ i + Len(t) - 1 <= Len(s)
    /\ \A k \in 1..Len(t) : s[i + k - 1] = t[k]

\* the Python test  t in s
Contains(s, t) == \E i \in 1..(Len(s) - Len(t) + 1) : MatchAt(s, t, i)

\* s.find(t): the lowest 1-based index of an occurrence, 0 for Python's -1
Find(s, t) ==
    IF Contains(s, t)
    THEN CHOOSE i \in 1..(Len(s) - Len(t) + 1) :
            /\ MatchAt(s, t, i)
            /\ \A j \in 1..(i - 1) : ~MatchAt(s, t, j)
    ELSE 0

\* s.count(t) for non-empty t: non-overlapping occurrences, scanned left to right;
\* each step goes to the first occurrence at or after i and on behind it
RECURSIVE CountFrom(_, _, _)
CountFrom(s, t, i) ==
    LET at == {k \in i..(Len(s) - Len(t) + 1) : MatchAt(s, t, k)}
    IN  IF at = {} THEN 0
        ELSE 1 + CountFrom(s, t, (CHOOSE k \in at : \A m \in at : k <= m) + Len(t))

Count(s, t) == IF t = <<>> THEN Len(s) + 1 ELSE CountFrom(s, t, 1)

\* s.strip()
Strip(s) ==
    LET keep == {i \in 1..Len(s) : ~IsSpace(s[i])}
    IN  IF keep = {} THEN <<>>
        ELSE LET lo == CHOOSE i \in keep : \A j \in keep : i <= j
                 hi == CHOOSE i \in keep : \A j \in keep : j <= i
             IN  SubSeq(s, lo, hi)

\* the members of a set of numbers in ascending order
Ascending(S) ==
    IF S = {} THEN <<>>
    ELSE LET lo == CHOOSE x \in S : \A y \in S : x <= y
             hi == CHOOSE x \in S : \A y \in S : y <= x
         IN  SelectSeq([k \in 1..(hi - lo + 1) |-> lo + k - 1], LAMBDA x : x \in S)

\* the maximal runs of the characters of s marked in keep, in order
Runs(s, keep) ==
    LET starts == Ascending({i \in 1..Len(s) : keep[i] /\ (i = 1 \/ ~keep[i - 1])})
        EndOf(i) == CHOOSE j \in i..Len(s) : j = Len(s) \/ ~keep[j + 1]
    IN  Seq0([k \in 1..Len(starts) |-> SubSeq(s, starts[k], EndOf(starts[k]))],
             Len(starts))

\* s.split()
Split(s) == Runs(s, Seq0([i \in 1..Len(s) |-> ~IsSpace(s[i])], Len(s)))

\* re.findall(r'\w+', s), also re.findall(r'\b\w+\b', s)
WordRuns(s) == Runs(s, Seq0([i \in 1..Len(s) |-> IsWordChar(s[i])], Len(s)))

\* sep.join(parts)
RECURSIVE Join(_, _)
Join(parts, sep) ==
    IF parts = <<>> THEN <<>>
    ELSE IF Len(parts) = 1 THEN parts[1]
    ELSE parts[1] \o sep \o Join(Tail(parts), sep)

ToSet(seq) == {seq[i] : i \in 1..Len(seq)}

\* dict.get(key, default)
Get(d, key, default) == IF key \in DOMAIN d THEN d[key] ELSE default

---------------------------------------------------------------------------
(* Exact fractions for the float arithmetic of the scorer *)

RECURSIVE Gcd(_, _)
Gcd(a, b) == IF b = 0 THEN a ELSE Gcd(b, a % b)

\* the fraction n/d (d > 0, n >= 0) in lowest terms
Rat(n, d) == LET g == Gcd(n, d) IN [num |-> n \div g, den |-> d \div g]

RatAdd(a, b) ==
    LET g == Gcd(a.den, b.den)
    IN  Rat(a.num * (b.den \div g) + b.num * (a.den \div g), (a.den \div g) * b.den)

RatMul(a, b) ==
    LET g1 == Gcd(a.num, b.den)
        g2 == Gcd(b.num, a.den)
    IN  Rat((a.num \div g1) * (b.num \div g2), (a.den \div g2) * (b.den \div g1))

\* a < b, by the continued-fraction expansions (no cross product)
RECURSIVE LessFrac(_, _, _, _)
LessFrac(a, b, c, d) ==
    LET qa == a \div b
        qc == c \div d
        ra == a % b
        rc == c % d
    IN  IF qa # qc THEN qa < qc
        ELSE IF rc = 0 THEN FALSE
        ELSE IF ra = 0 THEN TRUE
        ELSE LessFrac(d, rc, b, ra)

RatLess(a, b) == LessFrac(a.num, a.den, b.num, b.den)

RatLeq(a, b) == ~RatLess(b, a)

\* min(a, b) of Python: b only when b < a
RatMin(a, b) == IF RatLess(b, a) THEN b ELSE a

RatZero == [num |-> 0, den |-> 1]

RatOne == [num |-> 1, den |-> 1]


---------------------------------------------------------------------------
(* section_ranker.py: SectionRanker *)

\* default of max_per_document
MaxPerDocument == 5

\* default of max_sections
MaxSubSections == 10

\* the key x.get('relevance_score', 0)
ScoreOf(section) == Get(section, "relevance_score", RatZero)

\* dict item assignment d[key] = val
SetItem(d, key, val) ==
    [k \in (DOMAIN d) \cup {key} |-> IF k = key THEN val ELSE d[k]]

\* the similarity test of _titles_too_similar without the substring rule
TitlesTooSimilar_NoSubstring(title1, title2) ==
    IF title1 = <<>> \/ title2 = <<>> THEN FALSE
    ELSE IF title1 = title2 THEN TRUE
    ELSE LET words1 == ToSet(Split(title1))
             words2 == ToSet(Split(title2))
         IN  IF words1 # {} /\ words2 # {}
             THEN 10 * Cardinality(words1 \cap words2) > 7 * Cardinality(words1 \cup words2)
             ELSE FALSE

\* _titles_too_similar: similarity = overlap / total_unique > 0.7, in tenths
TitlesTooSimilar(title1, title2) ==
    IF title1 = <<>> \/ title2 = <<>> THEN FALSE
    ELSE IF title1 = title2 THEN TRUE
    ELSE IF Contains(title2, title1) \/ Contains(title1, title2) THEN TRUE
    ELSE LET words1 == ToSet(Split(title1))
             words2 == ToSet(Split(title2))
         IN  IF words1 # {} /\ words2 # {}
             THEN 10 * Cardinality(words1 \cap words2) > 7 * Cardinality(words1 \cup words2)
             ELSE FALSE

\* hash(' '.join(sorted(content_words[:20]))): the words are free of spaces, so the
\* joined text is determined by the multiset of the first 20 words, and the hash is
\* taken to be collision free
ContentHash(content_words) ==
    LET first == Slice(content_words, 1, 20)
    IN  [w \in ToSet(first) |-> Cardinality({i \in 1..Len(first) : first[i] = w})]

\* a loop in which a section dropped for its content still registers its title
RECURSIVE FilterLoop_RegisterDropped(_, _, _, _, _)
FilterLoop_RegisterDropped(sections, i, filtered, seen_titles, seen_content_hashes) ==
    IF i > Len(sections)
    THEN [filtered |-> filtered, seen_titles |-> seen_titles,
          seen_content_hashes |-> seen_content_hashes]
    ELSE LET section == sections[i]
             title == Strip(Lower(Get(section, "section_title", <<>>)))
             content_words == WordRuns(Lower(Get(section, "content", <<>>)))
             content_hash == ContentHash(content_words)
         IN  IF \E seen_title \in seen_titles : TitlesTooSimilar(title, seen_title)
             THEN FilterLoop_RegisterDropped(sections, i + 1, filtered, seen_titles,
                                             seen_content_hashes)
             ELSE IF Len(content_words) > 10 /\ content_hash \in seen_content_hashes
             THEN FilterLoop_RegisterDropped(sections, i + 1, filtered,
                                             seen_titles \cup {title}, seen_content_hashes)
             ELSE FilterLoop_RegisterDropped(sections, i + 1, Append(filtered, section),
                                             seen_titles \cup {title},
                                             IF Len(content_words) > 10
                                             THEN seen_content_hashes \cup {content_hash}
                                             ELSE seen_content_hashes)

\* the loop of filter_and_deduplicate_sections from section i on; returns the kept
\* sections with the two seen sets
RECURSIVE FilterLoop(_, _, _, _, _)
FilterLoop(sections, i, filtered, seen_titles, seen_content_hashes) ==
    IF i > Len(sections)
    THEN [filtered |-> filtered, seen_titles |-> seen_titles,
          seen_content_hashes |-> seen_content_hashes]
    ELSE LET section == sections[i]
             title == Strip(Lower(Get(section, "section_title", <<>>)))
             content == Get(section, "content", <<>>)
             content_words == WordRuns(Lower(content))
             content_hash == ContentHash(content_words)
         IN  IF \E seen_title \in seen_titles : TitlesTooSimilar(title, seen_title)
             THEN FilterLoop(sections, i + 1, filtered, seen_titles, seen_content_hashes)
             ELSE IF Len(content_words) > 10 /\ content_hash \in seen_content_hashes
             THEN FilterLoop(sections, i + 1, filtered, seen_titles, seen_content_hashes)
             ELSE FilterLoop(sections, i + 1, Append(filtered, section),
                             seen_titles \cup {title},
                             IF Len(content_words) > 10
                             THEN seen_content_hashes \cup {content_hash}
                             ELSE seen_content_hashes)

\* a filter whose loop begins at the second section
FilterAndDeduplicateSections_FromSecond(sections) ==
    IF sections = <<>> THEN sections
    ELSE FilterLoop(sections, 2, <<>>, {}, {}).filtered

\* filter_and_deduplicate_sections
FilterAndDeduplicateSections(sections) ==
    IF sections = <<>> THEN sections
    ELSE FilterLoop(sections, 1, <<>>, {}, {}).filtered

\* sorted(xs, key=relevance score, reverse=True): stable, so an item goes behind
\* the items with a higher score and behind the earlier items with an equal score
SortByScoreDesc(xs) ==
    LET pos == [i \in 1..Len(xs) |->
                   1 + Cardinality({j \in 1..Len(xs) :
                           \/ RatLess(ScoreOf(xs[i]), ScoreOf(xs[j]))
                           \/ j < i /\ ScoreOf(xs[j]) = ScoreOf(xs[i])})]
    IN  Seq0([p \in 1..Len(xs) |-> xs[CHOOSE i \in 1..Len(xs) : pos[i] = p]], Len(xs))

\* the keys of doc_sections in insertion order: document names by first appearance
DocNames(sections) ==
    LET name == [i \in 1..Len(sections) |-> Get(sections[i], "document", "unknown")]
        firsts == Ascending({i \in 1..Len(sections) :
                                \A j \in 1..(i - 1) : name[j] # name[i]})
    IN  Seq0([k \in 1..Len(firsts) |-> name[firsts[k]]], Len(firsts))

\* doc_sections[doc_name]
DocSectionList(sections, doc_name) ==
    LET OfDoc(section) == Get(section, "document", "unknown") = doc_name
    IN  SelectSeq(sections, OfDoc)

\* the per-document selection without the sort: the first sections in input order
TopOfDocument_Unsorted(sections, doc_name, max_per_document) ==
    LET doc_section_list == DocSectionList(sections, doc_name)
    IN  Slice(doc_section_list, 1, max_per_document)

\* sorted_doc_sections[:max_per_document]
TopOfDocument(sections, doc_name, max_per_document) ==
    LET sorted_doc_sections == SortByScoreDesc(DocSectionList(sections, doc_name))
    IN  Slice(sorted_doc_sections, 1, max_per_document)

\* balanced_sections after the loop over doc_sections.items()
RECURSIVE BalancedOf(_, _, _)
BalancedOf(sections, doc_names, max_per_document) ==
    IF doc_names = <<>> THEN <<>>
    ELSE TopOfDocument(sections, Head(doc_names), max_per_document)
             \o BalancedOf(sections, Tail(doc_names), max_per_document)

\* the ranks left as they were on entry
AssignRanks_Keep(xs) == xs

\* section['importance_rank'] = i + 1 for i, section in enumerate(xs)
AssignRanks(xs) ==
    Seq0([i \in 1..Len(xs) |-> SetItem(xs[i], "importance_rank", i)], Len(xs))

\* balance_section_distribution
BalanceSectionDistribution(sections, max_per_document) ==
    IF sections = <<>> THEN sections
    ELSE AssignRanks(SortByScoreDesc(
             BalancedOf(sections, DocNames(sections), max_per_document)))

---------------------------------------------------------------------------
(* section_ranker.py: SectionRanker, the sub-section analysis *)

\* refinement_rules; the pattern references? is found where "reference" is
RefinementRules(domain) ==
    CASE domain = "business" ->
           [key_phrases |-> {<<"r", "e", "v", "e", "n", "u", "e">>, <<"f", "i", "n", "a", "n", "c", "i", "a", "l">>, <<"m", "a", "r", "k", "e", "t">>, <<"g", "r", "o", "w", "t", "h">>,
                             <<"p", "e", "r", "f", "o", "r", "m", "a", "n", "c", "e">>},
            remove_patterns |-> {<<"d", "i", "s", "c", "l", "a", "i", "m", "e", "r">>, <<"l", "e", "g", "a", "l", " ", "n", "o", "t", "i", "c", "e">>, <<"c", "o", "p", "y", "r", "i", "g", "h", "t">>}]
      [] domain = "educational" ->
           [key_phrases |-> {<<"c", "o", "n", "c", "e", "p", "t">>, <<"t", "h", "e", "o", "r", "y">>, <<"p", "r", "i", "n", "c", "i", "p", "l", "e">>, <<"e", "x", "a", "m", "p", "l", "e">>,
                             <<"d", "e", "f", "i", "n", "i", "t", "i", "o", "n">>},
            remove_patterns |-> {<<"e", "x", "e", "r", "c", "i", "s", "e">>, <<"h", "o", "m", "e", "w", "o", "r", "k">>, <<"p", "r", "o", "b", "l", "e", "m", " ", "s", "e", "t">>}]
      [] OTHER ->
           [key_phrases |-> {<<"m", "e", "t", "h", "o", "d", "o", "l", "o", "g", "y">>, <<"a", "n", "a", "l", "y", "s", "i", "s">>, <<"r", "e", "s", "u", "l", "t", "s">>, <<"f", "i", "n", "d", "i", "n", "g", "s">>,
                             <<"l", "i", "t", "e", "r", "a", "t", "u", "r", "e", " ", "r", "e", "v", "i", "e", "w">>},
            remove_patterns |-> {<<"r", "e", "f", "e", "r", "e", "n", "c", "e">>, <<"b", "i", "b", "l", "i", "o", "g", "r", "a", "p", "h", "y">>, <<"a", "p", "p", "e", "n", "d", "i", "x">>}]

DomainOrder == <<"academic", "business", "educational">>

DomainIndicators(domain) ==
    CASE domain = "academic" ->
           {<<"r", "e", "s", "e", "a", "r", "c", "h">>, <<"s", "t", "u", "d", "y">>, <<"a", "n", "a", "l", "y", "s", "i", "s">>, <<"m", "e", "t", "h", "o", "d", "o", "l", "o", "g", "y">>, <<"l", "i", "t", "e", "r", "a", "t", "u", "r", "e">>,
            <<"f", "i", "n", "d", "i", "n", "g", "s">>, <<"e", "x", "p", "e", "r", "i", "m", "e", "n", "t">>}
      [] domain = "business" ->
           {<<"r", "e", "v", "e", "n", "u", "e">>, <<"f", "i", "n", "a", "n", "c", "i", "a", "l">>, <<"m", "a", "r", "k", "e", "t">>, <<"c", "o", "m", "p", "a", "n", "y">>, <<"b", "u", "s", "i", "n", "e", "s", "s">>,
            <<"p", "r", "o", "f", "i", "t">>, <<"i", "n", "v", "e", "s", "t", "m", "e", "n", "t">>}
      [] domain = "educational" ->
           {<<"c", "h", "a", "p", "t", "e", "r">>, <<"c", "o", "n", "c", "e", "p", "t">>, <<"t", "h", "e", "o", "r", "y">>, <<"p", "r", "i", "n", "c", "i", "p", "l", "e">>, <<"d", "e", "f", "i", "n", "i", "t", "i", "o", "n">>,
            <<"e", "x", "a", "m", "p", "l", "e">>, <<"s", "t", "u", "d", "e", "n", "t">>}

\* detect_document_domain: the first domain of the highest indicator count
DetectDocumentDomain(sections) ==
    LET texts == Seq0([i \in 1..Len(sections) |->
                          Get(sections[i], "content", <<>>) \o <<" ">>
                              \o Get(sections[i], "section_title", <<>>)],
                      Len(sections))
        all_text == Lower(Join(texts, <<" ">>))
        Score(d) == Cardinality({w \in DomainIndicators(DomainOrder[d]) :
                                    Contains(all_text, w)})
        scores == [d \in 1..3 |-> Score(d)]
    IN  DomainOrder[CHOOSE d \in 1..3 :
                        /\ \A e \in 1..3 : scores[e] <= scores[d]
                        /\ \A e \in 1..(d - 1) : scores[e] < scores[d]]

\* _should_skip_sentence
ShouldSkipSentence(sentence, remove_patterns) ==
    LET sentence_lower == Lower(sentence)
        plain == Cardinality({i \in 1..Len(sentence) :
                                 IsWordChar(sentence[i]) \/ IsSpace(sentence[i])})
        IsPageReference ==
            \E w \in {<<"p", "a", "g", "e">>, <<"p", ".">>} : \E s \in 1..Len(sentence_lower) :
            \E k \in (s + Len(w))..Len(sentence_lower) :
                /\ \A j \in 1..(s - 1) : IsSpace(sentence_lower[j])
                /\ MatchAt(sentence_lower, w, s)
                /\ \A j \in (s + Len(w))..(k - 1) : IsSpace(sentence_lower[j])
                /\ sentence_lower[k] \in Digits
    IN  \/ \E pattern \in remove_patterns : Contains(sentence_lower, pattern)
        \/ 2 * plain < Len(sentence)
        \/ IsPageReference
        \/ (\E i \in 1..Len(sentence) : sentence[i] \in UpperLetters)
             /\ (\A i \in 1..Len(sentence) : sentence[i] \notin LowerLetters)
             /\ Len(sentence) > 10

InformativeVerbs ==
    {<<"s", "h", "o", "w", "s">>, <<"d", "e", "m", "o", "n", "s", "t", "r", "a", "t", "e", "s">>, <<"i", "n", "d", "i", "c", "a", "t", "e", "s">>, <<"s", "u", "g", "g", "e", "s", "t", "s">>, <<"r", "e", "v", "e", "a", "l", "s">>,
     <<"e", "x", "p", "l", "a", "i", "n", "s">>, <<"d", "e", "s", "c", "r", "i", "b", "e", "s">>, <<"a", "n", "a", "l", "y", "z", "e", "s">>, <<"e", "x", "a", "m", "i", "n", "e", "s">>}

SubjectKeywords ==
    {<<"m", "e", "t", "h", "o", "d">>, <<"r", "e", "s", "u", "l", "t">>, <<"f", "i", "n", "d", "i", "n", "g">>, <<"a", "n", "a", "l", "y", "s", "i", "s">>, <<"d", "a", "t", "a">>, <<"s", "t", "u", "d", "y">>,
     <<"r", "e", "s", "e", "a", "r", "c", "h">>, <<"c", "o", "n", "c", "e", "p", "t">>, <<"t", "h", "e", "o", "r", "y">>}

\* _is_informative_sentence
IsInformativeSentence(sentence) ==
    LET sentence_lower == Lower(sentence)
        word_count == Len(Split(sentence))
        score ==
            (IF \E v \in InformativeVerbs : Contains(sentence_lower, v) THEN 2 ELSE 0)
          + (IF \E i \in 1..Len(sentence) : sentence[i] \in Digits THEN 1 ELSE 0)
          + (IF 10 <= word_count /\ word_count <= 50 THEN 1 ELSE 0)
          + (IF \E k \in SubjectKeywords : Contains(sentence_lower, k) THEN 2 ELSE 0)
    IN  score >= 3

\* shortest sentence refine_section_text looks at
MinSentenceLength == 20

\* longest content refine_section_text returns uncut
MaxUnrefinedLength == 1000

\* refine_section_text, the sentences kept by the filter joined again
FilteredText(section, domain) ==
    LET content == Get(section, "content", <<>>)
        rules == RefinementRules(domain)
        pieces == Runs(content, Seq0([i \in 1..Len(content) |->
                                         content[i] \notin {".", "!", "?"}],
                                     Len(content)))
        sentences == Seq0([k \in 1..Len(pieces) |-> Strip(pieces[k])], Len(pieces))
        Keep(sentence) ==
            /\ Len(sentence) >= MinSentenceLength
            /\ ~ShouldSkipSentence(sentence, rules.remove_patterns)
            /\ \/ \E phrase \in rules.key_phrases : Contains(Lower(sentence), phrase)
               \/ IsInformativeSentence(sentence)
    IN  Join(SelectSeq(sentences, Keep), <<".", " ">>)

\* the refinement without the fallback: the filtered text whatever was removed
RefineSectionText_NoFallback(section, domain) == FilteredText(section, domain)

\* refine_section_text
RefineSectionText(section, domain) ==
    LET content == Get(section, "content", <<>>)
        refined_text == FilteredText(section, domain)
    IN  IF content = <<>> THEN content
        ELSE IF 10 * Len(refined_text) < 3 * Len(content)
        THEN (IF Len(content) > MaxUnrefinedLength
              THEN Slice(content, 1, MaxUnrefinedLength) \o <<".", ".", ".">>
              ELSE content)
        ELSE refined_text

\* the record create_sub_section_analysis makes of one section
SubSectionOf(section, domain) ==
    LET refined_text == RefineSectionText(section, domain)
    IN  [document |-> section.document,
         section_title |-> section.section_title,
         refined_text |-> refined_text,
         page_number |-> section.page_number,
         importance_rank |-> section.importance_rank,
         relevance_score |-> Get(section, "relevance_score", RatZero),
         original_length |-> Len(Get(section, "content", <<>>)),
         refined_length |-> Len(refined_text),
         domain |-> domain]

\* the selection without the slice: every section is analysed
TopSections_All(sections, max_sections) == sections

\* ranked_sections[:max_sections]
TopSections(sections, max_sections) == Slice(sections, 1, max_sections)

\* create_sub_section_analysis
CreateSubSectionAnalysis(sections, max_sections) ==
    LET domain == DetectDocumentDomain(sections)
        top_sections == TopSections(sections, max_sections)
    IN  Seq0([k \in 1..Len(top_sections) |-> SubSectionOf(top_sections[k], domain)],
             Len(top_sections))


---------------------------------------------------------------------------
(* relevance_scorer.py: RelevanceScorer *)

\* stop_words of extract_keywords_from_text
StopWords ==
    {<<"t", "h", "e">>, <<"a">>, <<"a", "n">>, <<"a", "n", "d">>, <<"o", "r">>, <<"b", "u", "t">>, <<"i", "n">>, <<"o", "n">>,
     <<"a", "t">>, <<"t", "o">>, <<"f", "o", "r">>, <<"o", "f">>, <<"w", "i", "t", "h">>, <<"b", "y">>, <<"f", "r", "o", "m">>, <<"a", "s">>,
     <<"i", "s">>, <<"a", "r", "e">>, <<"w", "a", "s">>, <<"w", "e", "r", "e">>, <<"b", "e">>, <<"b", "e", "e", "n">>, <<"b", "e", "i", "n", "g">>,
     <<"h", "a", "v", "e">>, <<"h", "a", "s">>, <<"h", "a", "d">>, <<"d", "o">>, <<"d", "o", "e", "s">>, <<"d", "i", "d">>, <<"w", "i", "l", "l">>,
     <<"w", "o", "u", "l", "d">>, <<"c", "o", "u", "l", "d">>, <<"s", "h", "o", "u", "l", "d">>, <<"m", "a", "y">>, <<"m", "i", "g", "h", "t">>, <<"c", "a", "n">>,
     <<"t", "h", "i", "s">>, <<"t", "h", "a", "t">>, <<"t", "h", "e", "s", "e">>, <<"t", "h", "o", "s", "e">>, <<"i">>, <<"y", "o", "u">>, <<"h", "e">>,
     <<"s", "h", "e">>, <<"i", "t">>, <<"w", "e">>, <<"t", "h", "e", "y">>, <<"m", "e">>, <<"h", "i", "m">>, <<"h", "e", "r">>, <<"u", "s">>,
     <<"t", "h", "e", "m">>, <<"m", "y">>, <<"y", "o", "u", "r">>, <<"h", "i", "s">>, <<"i", "t", "s">>, <<"o", "u", "r">>, <<"t", "h", "e", "i", "r">>,
     <<"m", "i", "n", "e">>, <<"y", "o", "u", "r", "s">>, <<"o", "u", "r", "s">>, <<"t", "h", "e", "i", "r", "s">>, <<"m", "y", "s", "e", "l", "f">>, <<"y", "o", "u", "r", "s", "e", "l", "f">>,
     <<"h", "i", "m", "s", "e", "l", "f">>, <<"h", "e", "r", "s", "e", "l", "f">>, <<"i", "t", "s", "e", "l", "f">>, <<"o", "u", "r", "s", "e", "l", "v", "e", "s">>, <<"y", "o", "u", "r", "s", "e", "l", "v", "e", "s">>,
     <<"t", "h", "e", "m", "s", "e", "l", "v", "e", "s">>}

\* the keys of domain_mappings in _fallback_keyword_expansion
DomainMappingKeys ==
    {<<"r", "e", "s", "e", "a", "r", "c", "h">>, <<"s", "t", "u", "d", "e", "n", "t">>, <<"p", "h", "d">>, <<"u", "n", "d", "e", "r", "g", "r", "a", "d", "u", "a", "t", "e">>, <<"a", "n", "a", "l", "y", "s", "t">>,
     <<"i", "n", "v", "e", "s", "t", "m", "e", "n", "t">>, <<"b", "u", "s", "i", "n", "e", "s", "s">>, <<"n", "e", "u", "r", "a", "l">>, <<"c", "h", "e", "m", "i", "s", "t", "r", "y">>, <<"o", "r", "g", "a", "n", "i", "c">>,
     <<"l", "i", "t", "e", "r", "a", "t", "u", "r", "e">>, <<"e", "x", "a", "m">>, <<"f", "i", "n", "a", "n", "c", "i", "a", "l">>}

\* domain_mappings[k]
DomainMapping(k) ==
    CASE k = <<"r", "e", "s", "e", "a", "r", "c", "h">> ->
            <<<<"m", "e", "t", "h", "o", "d", "o", "l", "o", "g", "y">>, <<"a", "n", "a", "l", "y", "s", "i", "s">>, <<"s", "t", "u", "d", "y">>, <<"e", "x", "p", "e", "r", "i", "m", "e", "n", "t">>,
              <<"r", "e", "s", "u", "l", "t", "s">>, <<"c", "o", "n", "c", "l", "u", "s", "i", "o", "n">>, <<"l", "i", "t", "e", "r", "a", "t", "u", "r", "e">>, <<"r", "e", "v", "i", "e", "w">>,
              <<"f", "i", "n", "d", "i", "n", "g", "s">>, <<"d", "a", "t", "a">>>>
      [] k = <<"s", "t", "u", "d", "e", "n", "t">> ->
            <<<<"c", "o", "n", "c", "e", "p", "t">>, <<"t", "h", "e", "o", "r", "y">>, <<"p", "r", "i", "n", "c", "i", "p", "l", "e">>, <<"e", "x", "a", "m", "p", "l", "e">>, <<"d", "e", "f", "i", "n", "i", "t", "i", "o", "n">>,
              <<"e", "x", "p", "l", "a", "n", "a", "t", "i", "o", "n">>, <<"s", "u", "m", "m", "a", "r", "y">>, <<"k", "e", "y">>, <<"i", "m", "p", "o", "r", "t", "a", "n", "t">>, <<"e", "x", "a", "m">>>>
      [] k = <<"p", "h", "d">> ->
            <<<<"m", "e", "t", "h", "o", "d", "o", "l", "o", "g", "y">>, <<"l", "i", "t", "e", "r", "a", "t", "u", "r", "e">>, <<"r", "e", "v", "i", "e", "w">>, <<"a", "n", "a", "l", "y", "s", "i", "s">>,
              <<"b", "e", "n", "c", "h", "m", "a", "r", "k", "s">>, <<"p", "e", "r", "f", "o", "r", "m", "a", "n", "c", "e">>, <<"e", "v", "a", "l", "u", "a", "t", "i", "o", "n">>, <<"d", "a", "t", "a", "s", "e", "t", "s">>>>
      [] k = <<"u", "n", "d", "e", "r", "g", "r", "a", "d", "u", "a", "t", "e">> ->
            <<<<"b", "a", "s", "i", "c", "s">>, <<"f", "u", "n", "d", "a", "m", "e", "n", "t", "a", "l", "s">>, <<"i", "n", "t", "r", "o", "d", "u", "c", "t", "i", "o", "n">>, <<"o", "v", "e", "r", "v", "i", "e", "w">>,
              <<"c", "o", "n", "c", "e", "p", "t", "s">>, <<"e", "x", "a", "m", "p", "l", "e", "s">>, <<"p", "r", "a", "c", "t", "i", "c", "e">>>>
      [] k = <<"a", "n", "a", "l", "y", "s", "t">> ->
            <<<<"t", "r", "e", "n", "d", "s">>, <<"a", "n", "a", "l", "y", "s", "i", "s">>, <<"f", "i", "n", "a", "n", "c", "i", "a", "l">>, <<"r", "e", "v", "e", "n", "u", "e">>, <<"g", "r", "o", "w", "t", "h">>,
              <<"m", "a", "r", "k", "e", "t">>, <<"p", "e", "r", "f", "o", "r", "m", "a", "n", "c", "e">>, <<"m", "e", "t", "r", "i", "c", "s">>, <<"d", "a", "t", "a">>>>
      [] k = <<"i", "n", "v", "e", "s", "t", "m", "e", "n", "t">> ->
            <<<<"r", "e", "v", "e", "n", "u", "e">>, <<"p", "r", "o", "f", "i", "t">>, <<"g", "r", "o", "w", "t", "h">>, <<"m", "a", "r", "k", "e", "t">>, <<"f", "i", "n", "a", "n", "c", "i", "a", "l">>,
              <<"e", "a", "r", "n", "i", "n", "g", "s">>, <<"p", "e", "r", "f", "o", "r", "m", "a", "n", "c", "e">>, <<"s", "t", "r", "a", "t", "e", "g", "y">>>>
      [] k = <<"b", "u", "s", "i", "n", "e", "s", "s">> ->
            <<<<"s", "t", "r", "a", "t", "e", "g", "y">>, <<"m", "a", "r", "k", "e", "t">>, <<"r", "e", "v", "e", "n", "u", "e">>, <<"g", "r", "o", "w", "t", "h">>, <<"a", "n", "a", "l", "y", "s", "i", "s">>,
              <<"t", "r", "e", "n", "d", "s">>, <<"p", "e", "r", "f", "o", "r", "m", "a", "n", "c", "e">>, <<"c", "o", "m", "p", "e", "t", "i", "t", "i", "v", "e">>>>
      [] k = <<"n", "e", "u", "r", "a", "l">> ->
            <<<<"n", "e", "t", "w", "o", "r", "k">>, <<"m", "o", "d", "e", "l">>, <<"t", "r", "a", "i", "n", "i", "n", "g">>, <<"p", "e", "r", "f", "o", "r", "m", "a", "n", "c", "e">>, <<"a", "c", "c", "u", "r", "a", "c", "y">>,
              <<"d", "a", "t", "a", "s", "e", "t">>, <<"a", "l", "g", "o", "r", "i", "t", "h", "m">>, <<"m", "e", "t", "h", "o", "d">>>>
      [] k = <<"c", "h", "e", "m", "i", "s", "t", "r", "y">> ->
            <<<<"r", "e", "a", "c", "t", "i", "o", "n">>, <<"m", "e", "c", "h", "a", "n", "i", "s", "m">>, <<"c", "o", "m", "p", "o", "u", "n", "d">>, <<"s", "y", "n", "t", "h", "e", "s", "i", "s">>,
              <<"a", "n", "a", "l", "y", "s", "i", "s">>, <<"p", "r", "o", "p", "e", "r", "t", "i", "e", "s">>, <<"s", "t", "r", "u", "c", "t", "u", "r", "e">>>>
      [] k = <<"o", "r", "g", "a", "n", "i", "c">> ->
            <<<<"s", "y", "n", "t", "h", "e", "s", "i", "s">>, <<"m", "e", "c", "h", "a", "n", "i", "s", "m">>, <<"r", "e", "a", "c", "t", "i", "o", "n">>, <<"c", "o", "m", "p", "o", "u", "n", "d">>,
              <<"s", "t", "r", "u", "c", "t", "u", "r", "e">>, <<"p", "r", "o", "p", "e", "r", "t", "i", "e", "s">>, <<"k", "i", "n", "e", "t", "i", "c", "s">>>>
      [] k = <<"l", "i", "t", "e", "r", "a", "t", "u", "r", "e">> ->
            <<<<"r", "e", "v", "i", "e", "w">>, <<"m", "e", "t", "h", "o", "d", "o", "l", "o", "g", "y">>, <<"a", "n", "a", "l", "y", "s", "i", "s">>, <<"f", "i", "n", "d", "i", "n", "g", "s">>, <<"r", "e", "s", "u", "l", "t", "s">>,
              <<"s", "t", "u", "d", "y">>, <<"r", "e", "s", "e", "a", "r", "c", "h">>>>
      [] k = <<"e", "x", "a", "m">> ->
            <<<<"k", "e", "y">>, <<"i", "m", "p", "o", "r", "t", "a", "n", "t">>, <<"c", "o", "n", "c", "e", "p", "t">>, <<"t", "h", "e", "o", "r", "y">>, <<"p", "r", "i", "n", "c", "i", "p", "l", "e">>,
              <<"d", "e", "f", "i", "n", "i", "t", "i", "o", "n">>, <<"s", "u", "m", "m", "a", "r", "y">>>>
      [] k = <<"f", "i", "n", "a", "n", "c", "i", "a", "l">> ->
            <<<<"r", "e", "v", "e", "n", "u", "e">>, <<"p", "r", "o", "f", "i", "t">>, <<"e", "a", "r", "n", "i", "n", "g", "s">>, <<"g", "r", "o", "w", "t", "h">>, <<"p", "e", "r", "f", "o", "r", "m", "a", "n", "c", "e">>,
              <<"a", "n", "a", "l", "y", "s", "i", "s">>, <<"t", "r", "e", "n", "d", "s">>>>

\* number of related terms added per keyword: domain_mappings[keyword][:5]
RelatedTermsPerKeyword == 5

\* most_common(50)
MaxKeywords == 50

\* persona_keywords[:10], job_keywords[:10] given to the learned expander
MaxSeedKeywords == 10

\* extract_keywords_from_text: the distinct keywords, most frequent first, equally
\* frequent ones in order of first occurrence
ExtractKeywordsFromText(text) ==
    LET cleaned == [i \in 1..Len(text) |->
                       IF IsWordChar(text[i]) \/ IsSpace(text[i])
                       THEN LowerChar(text[i]) ELSE " "]
        words == Split(cleaned)
        IsKeyword(w) == Len(w) > 2 /\ w \notin StopWords
        keywords == SelectSeq(words, IsKeyword)
        n == Len(keywords)
        firsts == {i \in 1..n : \A j \in 1..(i - 1) : keywords[j] # keywords[i]}
        cnt == [i \in 1..n |-> Cardinality({j \in 1..n : keywords[j] = keywords[i]})]
        pos == [i \in firsts |->
                   1 + Cardinality({j \in firsts :
                           \/ cnt[j] > cnt[i]
                           \/ cnt[j] = cnt[i] /\ j < i})]
        common == [p \in 1..Cardinality(firsts) |->
                      keywords[CHOOSE i \in firsts : pos[i] = p]]
    IN  Slice(common, 1, MaxKeywords)

\* a fallback that gives each side the related terms of its own keywords only
FallbackKeywordExpansion_OwnSide(persona_keywords, job_keywords) ==
    LET Related(keywords) ==
            UNION {ToSet(Slice(DomainMapping(k), 1, RelatedTermsPerKeyword)) :
                      k \in ToSet(keywords) \cap DomainMappingKeys}
    IN  [persona_keywords |-> ToSet(persona_keywords) \cup Related(persona_keywords),
         job_keywords |-> ToSet(job_keywords) \cup Related(job_keywords)]

\* _fallback_keyword_expansion: the two keyword lists it stores, as sets
FallbackKeywordExpansion(persona_keywords, job_keywords) ==
    LET related == UNION {ToSet(Slice(DomainMapping(k), 1, RelatedTermsPerKeyword)) :
                             k \in ToSet(persona_keywords \o job_keywords)
                                       \cap DomainMappingKeys}
    IN  [persona_keywords |-> ToSet(persona_keywords) \cup related,
         job_keywords |-> ToSet(job_keywords) \cup related]

\* an expander whose raising calls count as calls that return nothing
MlExpanderOutcome_NoFallback(env) ==
    LET Value(c) == IF c.raises THEN <<>> ELSE c.value
    IN  [status |-> "ok", expanded_persona |-> Value(env.expand_persona),
         expanded_job |-> Value(env.expand_job),
         domain_terms |-> Value(env.domain_terms)]

\* what the scorer has of the learned expander. ml_expander is None when the
\* import raised ImportError or the constructor raised (__init__); with an
\* expander, the three calls in the try block of analyze_persona_and_job are
\* made in turn, and the first that raises takes the block to its except
MlExpanderOutcome(env) ==
    IF ~env.import_ok \/ ~env.construct_ok THEN [status |-> "unavailable"]
    ELSE IF env.expand_persona.raises \/ env.expand_job.raises \/ env.domain_terms.raises
    THEN [status |-> "raises"]
    ELSE [status |-> "ok", expanded_persona |-> env.expand_persona.value,
          expanded_job |-> env.expand_job.value,
          domain_terms |-> env.domain_terms.value]

\* analyze_persona_and_job: the fields of the scorer it sets.  ml is the learned
\* expander: status "unavailable" (ml_expander is None), "raises" (a call of it
\* raised) or "ok", and then the lists its three calls returned.
AnalyzePersonaAndJob(persona_text, job_text, ml) ==
    LET persona_keywords == ExtractKeywordsFromText(persona_text)
        job_keywords == ExtractKeywordsFromText(job_text)
        expanded ==
            IF ml.status = "ok"
            THEN [persona_keywords |->
                      ToSet(persona_keywords) \cup ToSet(ml.expanded_persona)
                          \cup ToSet(ml.domain_terms),
                  job_keywords |->
                      ToSet(job_keywords) \cup ToSet(ml.expanded_job)
                          \cup ToSet(ml.domain_terms)]
            ELSE FallbackKeywordExpansion(persona_keywords, job_keywords)
    IN  [persona_keywords |-> expanded.persona_keywords,
         job_keywords |-> expanded.job_keywords,
         original_persona |-> persona_text,
         original_job |-> job_text]

RECURSIVE SumOver(_, _)
SumOver(S, f) ==
    IF S = {} THEN 0
    ELSE LET x == CHOOSE y \in S : TRUE IN f[x] + SumOver(S \ {x}, f)

\* calculate_keyword_similarity.  matches = exact_matches + partial_matches * 0.5
\* is counted in halves, so similarity = (h/2 / words) * (h/2 / keywords).
CalculateKeywordSimilarity(text, keywords) ==
    IF keywords = {} \/ text = <<>> THEN RatZero
    ELSE LET text_lower == Lower(text)
             text_words == WordRuns(text_lower)
             halves == [keyword \in keywords |->
                 LET keyword_lower == Lower(keyword)
                     exact_matches == Count(text_lower, keyword_lower)
                     partial_matches ==
                         Cardinality({i \in 1..Len(text_words) :
                             \/ Contains(text_words[i], keyword_lower)
                             \/ Contains(keyword_lower, text_words[i])})
                 IN  2 * exact_matches + partial_matches]
             keyword_matches == SumOver(keywords, halves)
             total_keyword_weight == Cardinality(keywords)
         IN  IF text_words = <<>> THEN RatZero
             ELSE RatMin(RatMul(Rat(keyword_matches, 2 * Len(text_words)),
                                Rat(keyword_matches, 2 * total_keyword_weight)),
                         RatOne)

\* re.search(r'\b(w1|w2|...)\b', text) for alternatives made of word characters:
\* some maximal run of word characters of the text starts or ends with an
\* alternative at a word boundary, i.e. an alternative occurs with no word
\* character next to it on either side
HasWord(text, alternatives) ==
    \E w \in alternatives : \E i \in 1..(Len(text) - Len(w) + 1) :
        /\ MatchAt(text, w, i)
        /\ (i = 1 \/ ~IsWordChar(text[i - 1]))
        /\ (i + Len(w) > Len(text) \/ ~IsWordChar(text[i + Len(w)]))

\* re.search(r'\b(chapter|section)\s+\d+', text)
HasNumberedChapter(text) ==
    \E w \in {<<"c", "h", "a", "p", "t", "e", "r">>, <<"s", "e", "c", "t", "i", "o", "n">>} : \E i \in 1..(Len(text) - Len(w) + 1) :
        /\ MatchAt(text, w, i)
        /\ (i = 1 \/ ~IsWordChar(text[i - 1]))
        /\ \E j \in (i + Len(w) + 1)..Len(text) :
               /\ text[j] \in Digits
               /\ \A k \in (i + Len(w))..(j - 1) : IsSpace(text[k])

\* re.search(r'^\d+[\.\)]\s*\w+', text)
HasLeadingNumber(text) ==
    \E d \in 1..Len(text) : \E j \in (d + 2)..Len(text) :
        /\ \A k \in 1..d : text[k] \in Digits
        /\ text[d + 1] \in {".", ")"}
        /\ \A k \in (d + 2)..(j - 1) : IsSpace(text[k])
        /\ IsWordChar(text[j])

\* calculate_section_importance, in hundredths before the cap at 1.0
SectionImportanceHundredths(section, title) ==
    LET word_count == Len(Split(section))
        title_lower == Lower(title)
        section_lower == Lower(section)
        q(words, weight) == IF HasWord(section_lower, words) THEN weight ELSE 0
    IN  (IF 50 <= word_count /\ word_count <= 500 THEN 30
         ELSE IF 500 < word_count /\ word_count <= 1000 THEN 20
         ELSE IF word_count > 1000 THEN 10 ELSE 0)
        + (IF \/ HasWord(title_lower,
                     {<<"i", "n", "t", "r", "o", "d", "u", "c", "t", "i", "o", "n">>, <<"o", "v", "e", "r", "v", "i", "e", "w">>, <<"s", "u", "m", "m", "a", "r", "y">>, <<"c", "o", "n", "c", "l", "u", "s", "i", "o", "n">>,
                      <<"a", "b", "s", "t", "r", "a", "c", "t">>, <<"m", "e", "t", "h", "o", "d", "o", "l", "o", "g", "y">>, <<"r", "e", "s", "u", "l", "t", "s">>, <<"a", "n", "a", "l", "y", "s", "i", "s">>,
                      <<"d", "i", "s", "c", "u", "s", "s", "i", "o", "n">>})
              \/ HasWord(title_lower,
                     {<<"k", "e", "y">>, <<"i", "m", "p", "o", "r", "t", "a", "n", "t">>, <<"m", "a", "i", "n">>, <<"p", "r", "i", "m", "a", "r", "y">>, <<"e", "s", "s", "e", "n", "t", "i", "a", "l">>,
                      <<"f", "u", "n", "d", "a", "m", "e", "n", "t", "a", "l">>, <<"c", "r", "i", "t", "i", "c", "a", "l">>})
              \/ HasNumberedChapter(title_lower)
              \/ HasLeadingNumber(title_lower)
           THEN 20 ELSE 0)
        + q({<<"d", "e", "f", "i", "n", "i", "t", "i", "o", "n">>, <<"d", "e", "f", "i", "n", "e">>, <<"c", "o", "n", "c", "e", "p", "t">>, <<"p", "r", "i", "n", "c", "i", "p", "l", "e">>, <<"t", "h", "e", "o", "r", "y">>}, 10)
        + q({<<"e", "x", "a", "m", "p", "l", "e">>, <<"i", "n", "s", "t", "a", "n", "c", "e">>, <<"c", "a", "s", "e">>, <<"i", "l", "l", "u", "s", "t", "r", "a", "t", "i", "o", "n">>}, 10)
        + q({<<"r", "e", "s", "u", "l", "t">>, <<"f", "i", "n", "d", "i", "n", "g">>, <<"c", "o", "n", "c", "l", "u", "s", "i", "o", "n">>, <<"o", "u", "t", "c", "o", "m", "e">>}, 15)
        + q({<<"m", "e", "t", "h", "o", "d">>, <<"a", "p", "p", "r", "o", "a", "c", "h">>, <<"t", "e", "c", "h", "n", "i", "q", "u", "e">>, <<"p", "r", "o", "c", "e", "d", "u", "r", "e">>}, 10)
        + q({<<"a", "n", "a", "l", "y", "s", "i", "s">>, <<"e", "v", "a", "l", "u", "a", "t", "i", "o", "n">>, <<"a", "s", "s", "e", "s", "s", "m", "e", "n", "t">>, <<"c", "o", "m", "p", "a", "r", "i", "s", "o", "n">>}, 10)
        + q({<<"d", "a", "t", "a">>, <<"e", "v", "i", "d", "e", "n", "c", "e">>, <<"p", "r", "o", "o", "f">>, <<"s", "t", "a", "t", "i", "s", "t", "i", "c", "s">>}, 10)

\* calculate_section_importance
CalculateSectionImportance(section, title) ==
    RatMin(Rat(SectionImportanceHundredths(section, title), 100), RatOne)

\* any(keyword in text for keyword in keywords)
AnyIn(keywords, text) == \E keyword \in keywords : Contains(text, keyword)

\* the three (job keywords, title terms) pairs of the boosts
Boosts ==
    <<[job |-> {<<"l", "i", "t", "e", "r", "a", "t", "u", "r", "e">>, <<"r", "e", "v", "i", "e", "w">>, <<"m", "e", "t", "h", "o", "d", "o", "l", "o", "g", "y">>},
       title |-> {<<"m", "e", "t", "h", "o", "d">>, <<"l", "i", "t", "e", "r", "a", "t", "u", "r", "e">>, <<"r", "e", "v", "i", "e", "w">>, <<"a", "p", "p", "r", "o", "a", "c", "h">>}],
      [job |-> {<<"e", "x", "a", "m">>, <<"s", "t", "u", "d", "y">>, <<"c", "o", "n", "c", "e", "p", "t">>},
       title |-> {<<"c", "o", "n", "c", "e", "p", "t">>, <<"t", "h", "e", "o", "r", "y">>, <<"p", "r", "i", "n", "c", "i", "p", "l", "e">>, <<"k", "e", "y">>}],
      [job |-> {<<"f", "i", "n", "a", "n", "c", "i", "a", "l">>, <<"r", "e", "v", "e", "n", "u", "e">>, <<"a", "n", "a", "l", "y", "s", "i", "s">>},
       title |-> {<<"f", "i", "n", "a", "n", "c", "i", "a", "l">>, <<"r", "e", "v", "e", "n", "u", "e">>, <<"a", "n", "a", "l", "y", "s", "i", "s">>, <<"p", "e", "r", "f", "o", "r", "m", "a", "n", "c", "e">>}]>>

\* the boost factor of one section: final_score *= 1.2 for each boost that applies
BoostApplies(self, title, b) ==
    AnyIn(Boosts[b].job, Lower(self.original_job)) /\ AnyIn(Boosts[b].title, Lower(title))

\* the weighted sum of the three components
WeightedSum(self, section) ==
    LET content == Get(section, "content", <<>>)
        title == Get(section, "section_title", <<>>)
        text == content \o <<" ">> \o title
    IN  RatAdd(RatAdd(RatMul(CalculateKeywordSimilarity(text, self.persona_keywords),
                             Rat(4, 10)),
                      RatMul(CalculateKeywordSimilarity(text, self.job_keywords),
                             Rat(4, 10))),
               RatMul(CalculateSectionImportance(content, title), Rat(2, 10)))

\* a score that is boosted once however many boosts apply
BoostedScore_OneBoost(self, section) ==
    LET title == Get(section, "section_title", <<>>)
    IN  IF \E b \in 1..3 : BoostApplies(self, title, b)
        THEN RatMul(WeightedSum(self, section), Rat(12, 10))
        ELSE WeightedSum(self, section)

\* the weighted sum with all boosts applied, before the cap
BoostedScore(self, section) ==
    LET content == Get(section, "content", <<>>)
        title == Get(section, "section_title", <<>>)
        text == content \o <<" ">> \o title
        persona_relevance == CalculateKeywordSimilarity(text, self.persona_keywords)
        job_relevance == CalculateKeywordSimilarity(text, self.job_keywords)
        section_importance == CalculateSectionImportance(content, title)
        final_score == RatAdd(RatAdd(RatMul(persona_relevance, Rat(4, 10)),
                                     RatMul(job_relevance, Rat(4, 10))),
                              RatMul(section_importance, Rat(2, 10)))
        b1 == IF BoostApplies(self, title, 1) THEN RatMul(final_score, Rat(12, 10))
              ELSE final_score
        b2 == IF BoostApplies(self, title, 2) THEN RatMul(b1, Rat(12, 10)) ELSE b1
        b3 == IF BoostApplies(self, title, 3) THEN RatMul(b2, Rat(12, 10)) ELSE b2
    IN  b3

\* score_section_relevance with the final cap left out
ScoreSectionRelevance_NoCap(self, section) == BoostedScore(self, section)

\* score_section_relevance
ScoreSectionRelevance(self, section) == RatMin(BoostedScore(self, section), RatOne)

\* the ranking order with the sort ascending
RankOrder_Ascending(scored_sections) ==
    LET sorted == SortByScoreDesc(scored_sections)
    IN  [i \in 1..Len(sorted) |-> sorted[Len(sorted) + 1 - i]]

\* sorted(scored_sections, key=lambda x: x['relevance_score'], reverse=True)
RankOrder(scored_sections) == SortByScoreDesc(scored_sections)

\* the loop of rank_sections that scores a copy of each section, from section i on
RECURSIVE ScoredFrom(_, _, _)
ScoredFrom(self, sections, i) ==
    IF i > Len(sections) THEN <<>>
    ELSE <<SetItem(sections[i], "relevance_score",
                   ScoreSectionRelevance(self, sections[i]))>>
             \o ScoredFrom(self, sections, i + 1)

\* rank_sections: scores copies of the sections, sorts them, numbers them
RankSections(sections, persona_text, job_text, ml) ==
    LET self == AnalyzePersonaAndJob(persona_text, job_text, ml)
    IN  AssignRanks(RankOrder(ScoredFrom(self, sections, 1)))

---------------------------------------------------------------------------
(* section_extractor.py: SectionExtractor *)

\* A PDF is a record [path, readable, outline, pages]: pages[p] is the text
\* page.get_text() returns for page p, outline is what
\* heading_extractor.process(path) returns as its heading list.

\* re.sub(r'\s+', ' ', text)
CollapseWhitespace(text) ==
    LET keep == Ascending({i \in 1..Len(text) :
                    \/ ~IsSpace(text[i])
                    \/ i = 1
                    \/ ~IsSpace(text[i - 1])})
    IN  Seq0([k \in 1..Len(keep) |->
                 IF IsSpace(text[keep[k]]) THEN " " ELSE text[keep[k]]],
             Len(keep))

\* the characters the class of the URL pattern accepts: letters, digits, the
\* range $-_ and the listed punctuation
UrlChars ==
    UpperLetters \cup LowerLetters \cup Digits \cup
    {"$", "%", "&", "'", "(", ")", "*", "+", ",", "-", ".", "/", ":", ";", "<",
     "=", ">", "?", "@", "[", "\\", "]", "^", "_", "!"}

\* length of the scheme  http://  or  https://  at index i, 0 if there is none
SchemeAt(text, i) ==
    IF MatchAt(text, <<"h", "t", "t", "p", ":", "/", "/">>, i) THEN 7
    ELSE IF MatchAt(text, <<"h", "t", "t", "p", "s", ":", "/", "/">>, i) THEN 8
    ELSE 0

\* re.sub(r'http[s]?://(?:...)+', '', text): leftmost match, greedy, then on
\* behind it
RECURSIVE RemoveUrls(_)
RemoveUrls(text) ==
    LET starts == {i \in 1..Len(text) :
                      /\ SchemeAt(text, i) > 0
                      /\ i + SchemeAt(text, i) <= Len(text)
                      /\ text[i + SchemeAt(text, i)] \in UrlChars}
    IN  IF starts = {} THEN text
        ELSE LET i == CHOOSE k \in starts : \A m \in starts : k <= m
                 first == i + SchemeAt(text, i)
                 last == CHOOSE j \in first..Len(text) :
                            /\ \A k \in first..j : text[k] \in UrlChars
                            /\ j = Len(text) \/ text[j + 1] \notin UrlChars
             IN  Slice(text, 1, i - 1) \o RemoveUrls(Slice(text, last + 1, Len(text)))

\* a run of non-space characters that  \S+@\S+\.\S+  matches: an @ behind its
\* first character, and behind that @ a dot with a character on either side
EmailLike(token) ==
    \E a \in 2..Len(token) : \E d \in (a + 2)..(Len(token) - 1) :
        token[a] = "@" /\ token[d] = "."

\* re.sub(r'\S+@\S+\.\S+', '', text): the match is greedy, so it takes the
\* whole run of non-space characters it lies in
RemoveEmails(text) ==
    LET starts == {i \in 1..Len(text) :
                      ~IsSpace(text[i]) /\ (i = 1 \/ IsSpace(text[i - 1]))}
        EndOf(i) == CHOOSE j \in i..Len(text) :
                       /\ \A k \in i..j : ~IsSpace(text[k])
                       /\ j = Len(text) \/ IsSpace(text[j + 1])
        removed == UNION {IF EmailLike(SubSeq(text, i, EndOf(i))) THEN i..EndOf(i) ELSE {} :
                             i \in starts}
    IN  IF removed = {} THEN text
        ELSE LET keep == Ascending((1..Len(text)) \ removed)
             IN  Seq0([k \in 1..Len(keep) |-> text[keep[k]]], Len(keep))

\* _clean_extracted_text.  Once whitespace is collapsed the text holds no
\* newline, so the three patterns that need one (page numbers, "Page n"
\* lines, blank lines) match nothing.
CleanExtractedText(text) ==
    Strip(RemoveEmails(RemoveUrls(CollapseWhitespace(text))))

\* s.replace(t, '') for non-empty t
RECURSIVE Remove(_, _)
Remove(s, t) ==
    LET i == Find(s, t)
    IN  IF i = 0 THEN s
        ELSE Slice(s, 1, i - 1) \o Remove(Slice(s, i + Len(t), Len(s)), t)

\* pdf_path.split('/')[-1].replace('.pdf', '')
DocumentName(pdf_path) ==
    LET slashes == {i \in 1..Len(pdf_path) : pdf_path[i] = "/"}
        last == IF slashes = {} THEN 0
                ELSE CHOOSE i \in slashes : \A j \in slashes : j <= i
    IN  Remove(Slice(pdf_path, last + 1, Len(pdf_path)), <<".", "p", "d", "f">>)

\* a page that contributes nothing when a heading text looked for is not on it
PageContribution_FailClosed(doc, page, current_heading, next_heading) ==
    LET page_text == doc[page]
        heading_pos == Find(page_text, current_heading.text)
        after == IF page = current_heading.page
                 THEN (IF heading_pos # 0
                       THEN Slice(page_text, heading_pos + Len(current_heading.text),
                                  Len(page_text))
                       ELSE <<>>)
                 ELSE page_text
        next_heading_pos == IF next_heading = <<>> THEN 0
                            ELSE Find(after, next_heading[1].text)
    IN  IF next_heading # <<>> /\ page = next_heading[1].page
        THEN (IF next_heading_pos # 0 THEN Slice(after, 1, next_heading_pos - 1) ELSE <<>>)
        ELSE after

\* the text one page contributes to a section (body of the loop of
\* _extract_section_content); next_heading is <<>> for None
PageContribution(doc, page, current_heading, next_heading) ==
    LET page_text == doc[page]
        heading_pos == Find(page_text, current_heading.text)
        after == IF page = current_heading.page /\ heading_pos # 0
                 THEN Slice(page_text, heading_pos + Len(current_heading.text),
                            Len(page_text))
                 ELSE page_text
        next_heading_pos == IF next_heading = <<>> THEN 0
                            ELSE Find(after, next_heading[1].text)
    IN  IF /\ next_heading # <<>>
           /\ page = next_heading[1].page
           /\ next_heading_pos # 0
        THEN Slice(after, 1, next_heading_pos - 1)
        ELSE after

\* a content that ends with the page before the page of the next heading
ExtractSectionContent_ToPageBefore(doc, current_heading, next_heading) ==
    LET start_page == current_heading.page
        end_page == IF next_heading = <<>> THEN Len(doc)
                    ELSE IF next_heading[1].page > start_page
                    THEN next_heading[1].page - 1
                    ELSE start_page
        stop == IF end_page < Len(doc) THEN end_page ELSE Len(doc)
        content_parts == IF stop < start_page THEN <<>>
                         ELSE Seq0([k \in 1..(stop - start_page + 1) |->
                                       PageContribution(doc, start_page + k - 1,
                                                        current_heading, next_heading)],
                                   stop - start_page + 1)
    IN  CleanExtractedText(Join(content_parts, <<" ">>))

\* _extract_section_content; pages are numbered from 1 as in the headings
ExtractSectionContent(doc, current_heading, next_heading) ==
    LET start_page == current_heading.page
        end_page == IF next_heading # <<>> THEN next_heading[1].page ELSE Len(doc)
        stop == IF end_page < Len(doc) THEN end_page ELSE Len(doc)
        content_parts == IF stop < start_page THEN <<>>
                         ELSE Seq0([k \in 1..(stop - start_page + 1) |->
                                       PageContribution(doc, start_page + k - 1,
                                                        current_heading, next_heading)],
                                   stop - start_page + 1)
    IN  CleanExtractedText(Join(content_parts, <<" ">>))

\* the fallback section under another title and without its counts
ExtractFullDocumentAsSection_AsHeading(pdf) ==
    << [document |-> DocumentName(pdf.path),
        section_title |-> <<"D", "o", "c", "u", "m", "e", "n", "t">>,
        page_number |-> 1,
        content |-> CleanExtractedText(Join(pdf.pages, <<"\n">>)),
        heading_level |-> "H1",
        confidence |-> 0,
        word_count |-> 0,
        start_page |-> 1] >>

\* _extract_full_document_as_section
ExtractFullDocumentAsSection(pdf) ==
    LET full_text == Join(pdf.pages, <<"\n">>) \o
                     (IF pdf.pages = <<>> THEN <<>> ELSE <<"\n">>)
    IN  << [document |-> DocumentName(pdf.path),
            section_title |-> <<"F", "u", "l", "l", " ", "D", "o", "c", "u", "m", "e", "n", "t">>,
            page_number |-> 1,
            content |-> CleanExtractedText(full_text),
            heading_level |-> "H1",
            confidence |-> 1,
            word_count |-> Len(Split(full_text)),
            start_page |-> 1] >>

\* sorted(headings, key=lambda x: (x['page'], x.get('y_position', 0))): the
\* stable order of the heading indices
HeadingBefore(headings, i, j) ==
    LET yi == Get(headings[i], "y_position", 0)
        yj == Get(headings[j], "y_position", 0)
    IN  \/ headings[i].page < headings[j].page
        \/ headings[i].page = headings[j].page /\ yi < yj
        \/ headings[i].page = headings[j].page /\ yi = yj /\ i < j

\* the headings in the order the outline gives them
SortedHeadings_Unsorted(headings) == headings

SortedHeadings(headings) ==
    Seq0([k \in 1..Len(headings) |->
             headings[CHOOSE i \in 1..Len(headings) :
                 Cardinality({j \in 1..Len(headings) : HeadingBefore(headings, j, i)})
                     = k - 1]],
         Len(headings))

\* the content of a heading with a dash standing in for empty content
ContentOfHeading_Placeholder(pdf, sorted_headings, i) ==
    LET content == ExtractSectionContent(pdf.pages, sorted_headings[i],
            IF i + 1 <= Len(sorted_headings) THEN <<sorted_headings[i + 1]>> ELSE <<>>)
    IN  IF content = <<>> THEN <<"-">> ELSE content

\* the content extracted for the i-th sorted heading
ContentOfHeading(pdf, sorted_headings, i) ==
    ExtractSectionContent(pdf.pages, sorted_headings[i],
        IF i + 1 <= Len(sorted_headings) THEN <<sorted_headings[i + 1]>> ELSE <<>>)

\* the section appended for a heading with non-empty content
SectionOfHeading(pdf, heading, section_content) ==
    [document |-> DocumentName(pdf.path),
     section_title |-> heading.text,
     page_number |-> heading.page,
     content |-> section_content,
     heading_level |-> heading.level,
     confidence |-> Get(heading, "confidence", 0),
     word_count |-> Len(Split(section_content)),
     start_page |-> heading.page]

\* an extraction that returns the sections of the headings as they are, also
\* when there is none
ExtractSectionsWithContent_NoFallback(pdf) ==
    LET sorted_headings == SortedHeadings(pdf.outline)
        contents == Seq0([i \in 1..Len(sorted_headings) |->
                             ContentOfHeading(pdf, sorted_headings, i)],
                         Len(sorted_headings))
        kept == Ascending({i \in 1..Len(sorted_headings) : contents[i] # <<>>})
    IN  IF pdf.outline = <<>> THEN ExtractFullDocumentAsSection(pdf)
        ELSE Seq0([k \in 1..Len(kept) |->
                      SectionOfHeading(pdf, sorted_headings[kept[k]], contents[kept[k]])],
                  Len(kept))

\* extract_sections_with_content, for a PDF that opens
ExtractSectionsWithContent(pdf) ==
    LET headings == pdf.outline
        sorted_headings == SortedHeadings(headings)
        contents == Seq0([i \in 1..Len(sorted_headings) |->
                             ContentOfHeading(pdf, sorted_headings, i)],
                         Len(sorted_headings))
        kept == Ascending({i \in 1..Len(sorted_headings) : contents[i] # <<>>})
        sections == Seq0([k \in 1..Len(kept) |->
                             SectionOfHeading(pdf, sorted_headings[kept[k]],
                                              contents[kept[k]])],
                         Len(kept))
    IN  IF headings = <<>> THEN ExtractFullDocumentAsSection(pdf)
        ELSE IF sections = <<>> THEN ExtractFullDocumentAsSection(pdf)
        ELSE sections

---------------------------------------------------------------------------
(* 1A.py: HeadingOnlyPDFExtractor, from the enhanced blocks to the outline *)

\* A raw block is a record [text, size, font, is_bold, is_inline_bold, page,
\* bbox]; sizes are whole numbers of points.

\* str.istitle()
IsTitle(s) ==
    LET Cased(c) == c \in UpperLetters \cup LowerLetters
    IN  /\ \E i \in 1..Len(s) : Cased(s[i])
        /\ \A i \in 1..Len(s) :
               /\ s[i] \in UpperLetters => (i = 1 \/ ~Cased(s[i - 1]))
               /\ s[i] \in LowerLetters => (i > 1 /\ Cased(s[i - 1]))

\* str.isupper()
IsUpper(s) ==
    /\ \E i \in 1..Len(s) : s[i] \in UpperLetters
    /\ \A i \in 1..Len(s) : s[i] \notin LowerLetters

\* str.rstrip()
RStrip(s) ==
    LET keep == {i \in 1..Len(s) : ~IsSpace(s[i])}
    IN  IF keep = {} THEN <<>>
        ELSE SubSeq(s, 1, CHOOSE i \in keep : \A j \in keep : j <= i)

\* re.search(r'\b(w1|w2|...)\b', text, re.IGNORECASE): some whole word of the
\* text is one of the words
HasWordOf(text, words) == \E w \in ToSet(WordRuns(Lower(text))) : w \in words

Articles == {<<"t", "h", "e">>, <<"a">>, <<"a", "n">>, <<"t", "h", "i", "s">>, <<"t", "h", "a", "t">>, <<"t", "h", "e", "s", "e">>, <<"t", "h", "o", "s", "e">>}

Conjunctions ==
    {<<"a", "n", "d">>, <<"o", "r">>, <<"b", "u", "t">>, <<"h", "o", "w", "e", "v", "e", "r">>, <<"t", "h", "e", "r", "e", "f", "o", "r", "e">>, <<"b", "e", "c", "a", "u", "s", "e">>, <<"s", "i", "n", "c", "e">>,
     <<"w", "h", "i", "l", "e">>, <<"a", "l", "t", "h", "o", "u", "g", "h">>}

\* re.match(r'^\d+[\.\)\s]', text)
StartsWithNumber(text) ==
    \E d \in 1..(Len(text) - 1) :
        /\ \A k \in 1..d : text[k] \in Digits
        /\ text[d + 1] \in {".", ")"} \/ IsSpace(text[d + 1])

\* a size of at least 1.3 times the body text size
SizeFarAboveBody == [num |-> 13, den |-> 10]

\* a size of at least 1.15 times the body text size
SizeAboveBody == [num |-> 23, den |-> 20]

\* enhance_block_features: the features the detection reads (the italic,
\* upper-case share, z-score, width, height and font family features are read
\* by nothing that follows)
EnhanceBlockFeatures(block, body_text_size) ==
    [is_bold |-> Get(block, "is_bold", FALSE),
     is_title_case |-> IsTitle(block.text),
     length |-> Len(block.text),
     word_count |-> Len(Split(block.text)),
     starts_with_number |-> StartsWithNumber(block.text),
     ends_with_colon |-> LET t == RStrip(block.text)
                         IN  t # <<>> /\ t[Len(t)] = ":",
     is_all_caps |-> IsUpper(block.text) /\ Len(block.text) > 2,
     size_vs_body |-> Rat(block.size, body_text_size),
     x_position |-> block.bbox[1],
     y_position |-> block.bbox[2],
     is_left_aligned |-> block.bbox[1] < 100,
     sentence_count |-> Count(block.text, <<".">>) + Count(block.text, <<"!">>)
                        + Count(block.text, <<"?">>),
     has_articles |-> HasWordOf(block.text, Articles),
     has_conjunctions |-> HasWordOf(block.text, Conjunctions),
     is_inline_bold |-> Get(block, "is_inline_bold", FALSE)] @@ block

HeadingWords ==
    {<<"C", "h", "a", "p", "t", "e", "r">>, <<"S", "e", "c", "t", "i", "o", "n">>, <<"P", "a", "r", "t">>, <<"A", "p", "p", "e", "n", "d", "i", "x">>, <<"I", "n", "t", "r", "o", "d", "u", "c", "t", "i", "o", "n">>,
     <<"C", "o", "n", "c", "l", "u", "s", "i", "o", "n">>, <<"S", "u", "m", "m", "a", "r", "y">>, <<"A", "b", "s", "t", "r", "a", "c", "t">>, <<"O", "v", "e", "r", "v", "i", "e", "w">>, <<"B", "a", "c", "k", "g", "r", "o", "u", "n", "d">>,
     <<"M", "e", "t", "h", "o", "d", "o", "l", "o", "g", "y">>, <<"R", "e", "s", "u", "l", "t", "s">>, <<"D", "i", "s", "c", "u", "s", "s", "i", "o", "n">>, <<"R", "e", "f", "e", "r", "e", "n", "c", "e", "s">>, <<"B", "i", "b", "l", "i", "o", "g", "r", "a", "p", "h", "y">>}

\* r'^(Chapter|Section|...)\b'
StartsWithHeadingWord(text) ==
    \E w \in HeadingWords :
        /\ MatchAt(text, w, 1)
        /\ Len(text) = Len(w) \/ ~IsWordChar(text[Len(w) + 1])

\* r'^\d+[\.\)]\s*[A-Z]'
IsNumberedSection(text) ==
    \E d \in 1..(Len(text) - 2) : \E k \in (d + 2)..Len(text) :
        /\ \A i \in 1..d : text[i] \in Digits
        /\ text[d + 1] \in {".", ")"}
        /\ \A i \in (d + 2)..(k - 1) : IsSpace(text[i])
        /\ text[k] \in UpperLetters

\* r'^[A-Z][A-Z\s]{3,25}$' on a stripped text
IsShortAllCaps(text) ==
    /\ Len(text) >= 4
    /\ Len(text) <= 26
    /\ text[1] \in UpperLetters
    /\ \A i \in 2..Len(text) : text[i] \in UpperLetters \/ IsSpace(text[i])

\* r'^[A-Z][a-z]+(\s+[A-Z][a-z]+){0,4}$' on a stripped text
IsTitleCaseWords(text) ==
    LET words == Split(text)
    IN  /\ \A i \in 1..Len(text) :
               text[i] \in UpperLetters \cup LowerLetters \/ IsSpace(text[i])
        /\ Len(words) >= 1
        /\ Len(words) <= 5
        /\ \A k \in 1..Len(words) :
               /\ Len(words[k]) >= 2
               /\ words[k][1] \in UpperLetters
               /\ \A i \in 2..Len(words[k]) : words[k][i] \in LowerLetters

\* any(re.match(pattern, text) for pattern in heading_patterns)
MatchesHeadingPattern(text) ==
    \/ StartsWithHeadingWord(text)
    \/ IsNumberedSection(text)
    \/ IsShortAllCaps(text)
    \/ IsTitleCaseWords(text)

CommonWords ==
    {<<"t", "h", "e">>, <<"a">>, <<"a", "n">>, <<"a", "n", "d">>, <<"o", "r">>, <<"b", "u", "t">>, <<"i", "n">>, <<"o", "n">>, <<"a", "t">>,
     <<"b", "y">>, <<"f", "o", "r">>, <<"w", "i", "t", "h">>, <<"f", "r", "o", "m">>, <<"t", "o">>, <<"o", "f">>, <<"i", "s">>, <<"a", "r", "e">>, <<"w", "a", "s">>,
     <<"w", "e", "r", "e">>, <<"b", "e">>, <<"b", "e", "e", "n">>, <<"b", "e", "i", "n", "g">>, <<"h", "a", "v", "e">>, <<"h", "a", "s">>, <<"h", "a", "d">>, <<"d", "o">>,
     <<"d", "o", "e", "s">>, <<"d", "i", "d">>, <<"w", "i", "l", "l">>, <<"w", "o", "u", "l", "d">>, <<"c", "o", "u", "l", "d">>, <<"s", "h", "o", "u", "l", "d">>, <<"m", "a", "y">>,
     <<"m", "i", "g", "h", "t">>, <<"c", "a", "n">>}

\* len(re.findall(r'\b(the|a|...)\b', text, re.IGNORECASE))
CommonWordCount(text) ==
    LET runs == WordRuns(Lower(text))
    IN  Cardinality({k \in 1..Len(runs) : runs[k] \in CommonWords})

\* the confidence strict_heading_detection computes for one block
Confidence(block) ==
    LET text == Strip(block.text)
        word_count == block.word_count
        dots == Count(text, <<".">>)
        pattern == MatchesHeadingPattern(text)
    IN  (IF RatLeq(SizeFarAboveBody, block.size_vs_body) THEN 5
         ELSE IF RatLeq(SizeAboveBody, block.size_vs_body) THEN 3 ELSE 0)
      + (IF block.is_bold
         THEN (IF Get(block, "is_inline_bold", FALSE) THEN 0 - 6 ELSE 4)
         ELSE 0)
      + (IF pattern THEN 4 ELSE 0)
      + (IF 3 <= Len(text) /\ Len(text) <= 50 THEN 2
         ELSE IF 51 <= Len(text) /\ Len(text) <= 80 THEN 1 ELSE 0 - 2)
      + (IF 1 <= word_count /\ word_count <= 8 THEN 2
         ELSE IF word_count > 15 THEN 0 - 3 ELSE 0)
      + (IF block.ends_with_colon THEN 2 ELSE 0)
      + (IF block.starts_with_number THEN 3 ELSE 0)
      + (IF block.is_title_case /\ word_count <= 10 THEN 2 ELSE 0)
      + (IF block.is_all_caps /\ Len(text) <= 40 THEN 2 ELSE 0)
      + (IF block.has_articles /\ word_count <= 5 THEN 0 - 2
         ELSE IF block.has_articles /\ word_count > 5 THEN 0 - 4 ELSE 0)
      + (IF block.has_conjunctions THEN 0 - 3 ELSE 0)
      + (IF block.sentence_count > 1 THEN 0 - 5 ELSE 0)
      + (IF dots > 1 \/ (dots = 1 /\ text[Len(text)] # ".") THEN 0 - 3 ELSE 0)
      + (IF 10 * CommonWordCount(text) > 3 * word_count THEN 0 - 2 ELSE 0)
      + (IF block.is_bold /\ Len(text) < 10 /\ ~pattern THEN 0 - 3 ELSE 0)

Modals ==
    {<<"i", "s">>, <<"a", "r", "e">>, <<"w", "a", "s">>, <<"w", "e", "r", "e">>, <<"h", "a", "s">>, <<"h", "a", "v", "e">>, <<"h", "a", "d">>, <<"w", "i", "l", "l">>,
     <<"w", "o", "u", "l", "d">>, <<"c", "o", "u", "l", "d">>, <<"s", "h", "o", "u", "l", "d">>, <<"m", "a", "y">>, <<"m", "i", "g", "h", "t">>, <<"c", "a", "n">>}

\* re.search(r'\b(is|are|...)\s+\w+', text, re.IGNORECASE)
HasPredicate(text) ==
    LET t == Lower(text)
    IN  \E w \in Modals : \E i \in 1..Len(t) : \E k \in (i + Len(w) + 1)..Len(t) :
            /\ MatchAt(t, w, i)
            /\ i = 1 \/ ~IsWordChar(t[i - 1])
            /\ \A j \in (i + Len(w))..(k - 1) : IsSpace(t[j])
            /\ IsWordChar(t[k])

BodyPhrases ==
    {<<"a", "s", " ", "s", "h", "o", "w", "n", " ", "i", "n">>, <<"a", "c", "c", "o", "r", "d", "i", "n", "g", " ", "t", "o">>, <<"i", "t", " ", "s", "h", "o", "u", "l", "d", " ", "b", "e", " ", "n", "o", "t", "e", "d">>, <<"i", "n", " ", "t", "h", "i", "s", " ", "s", "e", "c", "t", "i", "o", "n">>,
     <<"a", "s", " ", "d", "e", "s", "c", "r", "i", "b", "e", "d">>, <<"f", "o", "r", " ", "e", "x", "a", "m", "p", "l", "e">>, <<"s", "u", "c", "h", " ", "a", "s">>, <<"i", "n", " ", "o", "r", "d", "e", "r", " ", "t", "o">>}

CaptionWords ==
    {<<"f", "i", "g", "u", "r", "e">>, <<"t", "a", "b", "l", "e">>, <<"c", "h", "a", "r", "t">>, <<"g", "r", "a", "p", "h">>, <<"i", "m", "a", "g", "e">>, <<"p", "h", "o", "t", "o">>, <<"d", "i", "a", "g", "r", "a", "m">>}

\* re.match(r'^(figure|table|...)\s+\d+', text, re.IGNORECASE)
IsCaption(text) ==
    LET t == Lower(text)
    IN  \E w \in CaptionWords : \E k \in (Len(w) + 2)..Len(t) :
            /\ MatchAt(t, w, 1)
            /\ \A j \in (Len(w) + 1)..(k - 1) : IsSpace(t[j])
            /\ t[k] \in Digits

\* final_heading_validation
FinalHeadingValidation(block) ==
    LET text == Strip(block.text)
    IN  /\ ~Get(block, "is_inline_bold", FALSE)
        /\ ~HasPredicate(text)
        /\ \A phrase \in BodyPhrases : ~Contains(Lower(text), phrase)
        /\ ~IsCaption(text)
        /\ ~(block.is_bold /\ block.word_count <= 2 /\ ~block.is_left_aligned)

\* lowest confidence of a heading candidate
MinConfidence == 7

\* the candidate test without the confidence threshold
IsHeadingCandidate_AnyConfidence(block) == FinalHeadingValidation(block)

\* the test that puts a block on the candidate list
IsHeadingCandidate(block) ==
    Confidence(block) >= MinConfidence /\ FinalHeadingValidation(block)

\* heading_candidates before the sort: the pairs (block, confidence)
HeadingCandidates(blocks) ==
    LET kept == Ascending({i \in 1..Len(blocks) : IsHeadingCandidate(blocks[i])})
    IN  Seq0([k \in 1..Len(kept) |->
                 [block |-> blocks[kept[k]], confidence |-> Confidence(blocks[kept[k]])]],
             Len(kept))

\* order of the key (-confidence, -size, page, y_position)
CandidateKeyLess(a, b) ==
    \/ a.confidence > b.confidence
    \/ a.confidence = b.confidence /\ a.block.size > b.block.size
    \/ a.confidence = b.confidence /\ a.block.size = b.block.size
         /\ a.block.page < b.block.page
    \/ a.confidence = b.confidence /\ a.block.size = b.block.size
         /\ a.block.page = b.block.page /\ a.block.y_position < b.block.y_position

\* order of the key (page, y_position)
PositionKeyLess(a, b) ==
    \/ a.block.page < b.block.page
    \/ a.block.page = b.block.page /\ a.block.y_position < b.block.y_position

\* list.sort(key=...): the stable sort of candidates by CandidateKeyLess
SortCandidates(candidates) ==
    LET Before(i, j) == \/ CandidateKeyLess(candidates[i], candidates[j])
                        \/ ~CandidateKeyLess(candidates[j], candidates[i]) /\ i < j
    IN  Seq0([k \in 1..Len(candidates) |->
                 candidates[CHOOSE i \in 1..Len(candidates) :
                     Cardinality({j \in 1..Len(candidates) : Before(j, i)}) = k - 1]],
             Len(candidates))

\* are_headings_similar
AreHeadingsSimilar(text1, text2) ==
    LET shorter == IF Len(text1) < Len(text2) THEN Len(text1) ELSE Len(text2)
        longer == IF Len(text1) < Len(text2) THEN Len(text2) ELSE Len(text1)
        common_chars == Cardinality({i \in 1..shorter : text1[i] = text2[i]})
    IN  \/ longer - shorter <= 2 /\ 5 * common_chars > 4 * longer
        \/ Contains(text2, text1)
        \/ Contains(text1, text2)

\* remove_duplicate_headings: the loop over the candidates from index i, with the
\* texts seen and the candidates kept so far
RECURSIVE RemoveDuplicatesFrom(_, _, _, _)
RemoveDuplicatesFrom(candidates, i, seen_texts, filtered) ==
    IF i > Len(candidates) THEN filtered
    ELSE LET text == Lower(Strip(candidates[i].block.text))
             skip == \/ text \in seen_texts
                     \/ \E seen_text \in seen_texts : AreHeadingsSimilar(text, seen_text)
         IN  IF skip
             THEN RemoveDuplicatesFrom(candidates, i + 1, seen_texts, filtered)
             ELSE RemoveDuplicatesFrom(candidates, i + 1, seen_texts \cup {text},
                                       Append(filtered, candidates[i]))

\* a removal that drops a candidate for an equal text only
RemoveDuplicateHeadings_ExactOnly(candidates) ==
    LET Text(i) == Lower(Strip(candidates[i].block.text))
        kept == Ascending({i \in 1..Len(candidates) : \A j \in 1..(i - 1) : Text(j) # Text(i)})
    IN  Seq0([k \in 1..Len(kept) |-> candidates[kept[k]]], Len(kept))

RemoveDuplicateHeadings(candidates) == RemoveDuplicatesFrom(candidates, 1, {}, <<>>)

\* a level_map that counts the larger candidates, not the larger sizes
LevelOfSize_CountingBlocks(candidates, size) ==
    LET larger == Cardinality({i \in 1..Len(candidates) : candidates[i].block.size > size})
    IN  IF larger = 0 THEN "H1" ELSE IF larger = 1 THEN "H2" ELSE "H3"

\* level_map: the level of a size among the sizes of the candidates
LevelOfSize(candidates, size) ==
    LET sizes == {candidates[i].block.size : i \in 1..Len(candidates)}
        larger == Cardinality({s \in sizes : s > size})
    IN  IF larger = 0 THEN "H1" ELSE IF larger = 1 THEN "H2" ELSE "H3"

\* the candidates left in the order they came in, by confidence
AllBlocks_ConfidenceOrder(candidates) == candidates

\* all_blocks: the candidates grouped by size, the groups in the order their
\* sizes first occur, then sorted by (page, y_position), stable
AllBlocks(candidates) ==
    LET n == Len(candidates)
        FirstOf(i) == CHOOSE j \in 1..n :
                         /\ candidates[j].block.size = candidates[i].block.size
                         /\ \A m \in 1..(j - 1) :
                                candidates[m].block.size # candidates[i].block.size
        Grouped(i, j) == FirstOf(i) < FirstOf(j) \/ (FirstOf(i) = FirstOf(j) /\ i < j)
        Before(i, j) == \/ PositionKeyLess(candidates[i], candidates[j])
                        \/ ~PositionKeyLess(candidates[j], candidates[i]) /\ Grouped(i, j)
    IN  Seq0([k \in 1..n |->
                 candidates[CHOOSE i \in 1..n :
                     Cardinality({j \in 1..n : j # i /\ Before(j, i)}) = k - 1]],
             n)

\* assign_heading_levels
AssignHeadingLevels(candidates) ==
    LET all_blocks == AllBlocks(candidates)
    IN  Seq0([k \in 1..Len(all_blocks) |->
                 [level |-> LevelOfSize(candidates, all_blocks[k].block.size),
                  text |-> all_blocks[k].block.text,
                  page |-> all_blocks[k].block.page,
                  confidence |-> all_blocks[k].confidence,
                  size |-> all_blocks[k].block.size,
                  font |-> all_blocks[k].block.font,
                  is_bold |-> all_blocks[k].block.is_bold,
                  word_count |-> all_blocks[k].block.word_count]],
             Len(all_blocks))

\* a detection that takes the blocks it accepts out of the list it was given
BlocksAfterDetection_Consumed(blocks) ==
    SelectSeq(blocks, LAMBDA b : ~IsHeadingCandidate(b))

\* the caller's list of blocks once strict_heading_detection has returned: the
\* loop only reads the blocks (the stripped text is a local), the candidate
\* list is a new list, and no method it calls assigns to a block or to self
BlocksAfterDetection(blocks) == blocks

\* strict_heading_detection: the pair (title, outline)
StrictHeadingDetection(blocks) ==
    LET outline == AssignHeadingLevels(
                       RemoveDuplicateHeadings(SortCandidates(HeadingCandidates(blocks))))
    IN  [title |-> IF outline # <<>> THEN outline[1].text ELSE <<>>,
         outline |-> outline]

---------------------------------------------------------------------------
(* 1A.py: HeadingOnlyPDFExtractor, from the blocks of the pages to process() *)

\* Regular expressions are read as steps over positions: a step takes the set
\* of positions a match may have reached (the index of the next character,
\* 1..Len(t)+1) and gives the positions behind one more piece of the pattern.

\* every position of a text: where re.search may start
Anywhere(t) == 1..(Len(t) + 1)

\* one of the literals in ws
StepWords(t, ws, S) == {i + Len(w) : <<i, w>> \in {p \in S \X ws : MatchAt(t, p[2], p[1])}}

\* \s+
StepSpaces(t, S) ==
    {j + 1 : j \in {j \in 1..Len(t) :
                       \E i \in S : i <= j /\ \A k \in i..j : IsSpace(t[k])}}

\* \d+
StepDigits(t, S) ==
    {j + 1 : j \in {j \in 1..Len(t) :
                       \E i \in S : i <= j /\ \A k \in i..j : t[k] \in Digits}}

\* \w+
StepWordChars(t, S) ==
    {j + 1 : j \in {j \in 1..Len(t) :
                       \E i \in S : i <= j /\ \A k \in i..j : IsWordChar(t[k])}}

\* .* (the dot takes no newline)
StepAny(t, S) ==
    {j \in Anywhere(t) : \E i \in S : i <= j /\ \A k \in i..(j - 1) : t[k] # "\n"}

\* \b
StepBoundary(t, S) ==
    LET W(i) == i >= 1 /\ i <= Len(t) /\ IsWordChar(t[i])
    IN  {i \in S : W(i - 1) # W(i)}

\* x? for a literal x
StepOptional(t, w, S) == S \cup StepWords(t, {w}, S)

\* re.search(r'\b(w1|w2|...)\b', t) for literals that may hold spaces
HasPhraseOf(t, ws) ==
    StepBoundary(t, StepWords(t, ws, StepBoundary(t, Anywhere(t)))) # {}

\* ^\d+\s+<unit>s?\s+of\s+\w+ for one unit of a requirement
RequirementOf(t, unit) ==
    StepWordChars(t, StepSpaces(t, StepWords(t, {<<"o", "f">>},
        StepSpaces(t, StepOptional(t, <<"s">>, StepWords(t, {unit},
            StepSpaces(t, StepDigits(t, {1})))))))) # {}

\* any(re.search(pattern, text, re.IGNORECASE) for pattern in
\* requirement_patterns), on the lowercased text
MatchesRequirementPattern(t) ==
    \/ \E unit \in {<<"c", "r", "e", "d", "i", "t">>, <<"h", "o", "u", "r">>, <<"u", "n", "i", "t">>, <<"s", "e", "m", "e", "s", "t", "e", "r">>} : RequirementOf(t, unit)
    \/ StepWords(t, {<<"i", "n">>, <<"o", "f">>, <<"f", "r", "o", "m">>},
           StepSpaces(t, StepOptional(t, <<"s">>,
               StepWords(t, {<<"c", "r", "e", "d", "i", "t">>, <<"h", "o", "u", "r">>, <<"u", "n", "i", "t">>, <<"s", "e", "m", "e", "s", "t", "e", "r">>, <<"y", "e", "a", "r">>},
                   StepSpaces(t, StepDigits(t, {1})))))) # {}
    \/ StepWords(t, {<<"c", "o", "u", "r", "s", "e">>},
           StepAny(t, StepDigits(t, StepWords(t, {<<"a", "t", " ", "l", "e", "a", "s", "t", " ">>}, Anywhere(t))))) # {}
    \/ StepWords(t, {<<"c", "r", "e", "d", "i", "t">>, <<"h", "o", "u", "r">>, <<"u", "n", "i", "t">>},
           StepAny(t, StepDigits(t, StepAny(t,
               StepWords(t, {<<"m", "i", "n", "i", "m", "u", "m">>}, Anywhere(t)))))) # {}
    \/ StepWords(t, {<<"a", "p">>, <<"a", "d", "v", "a", "n", "c", "e", "d">>, <<"h", "o", "n", "o", "r", "s">>},
           StepWords(t, {<<" ">>},
               StepOptional(t, <<"n">>,
                   StepWords(t, {<<"s", "h", "o", "u", "l", "d", " ", "b", "e", " ", "a">>}, Anywhere(t))))) # {}
    \/ StepWords(t, {<<"i", "n", "c", "l", "u", "d", "e">>, <<"c", "o", "n", "t", "a", "i", "n">>, <<"h", "a", "v", "e">>},
           StepWords(t, {<<"m", "u", "s", "t", " ">>}, Anywhere(t))) # {}
    \/ StepWords(t, {<<"h", "i", "g", "h", "e", "r">>, <<"a", "b", "o", "v", "e">>},
           StepWords(t, {<<"o", "r", " ">>},
               StepAny(t, StepDigits(t, StepAny(t,
                   StepWords(t, {<<"g", "r", "a", "d", "e">>}, Anywhere(t))))))) # {}

ReportingVerbs ==
    {<<"s", "a", "i", "d">>, <<"s", "a", "y", "s">>, <<"a", "c", "c", "o", "r", "d", "i", "n", "g">>, <<"r", "e", "p", "o", "r", "t", "e", "d">>, <<"s", "t", "a", "t", "e", "d">>, <<"m", "e", "n", "t", "i", "o", "n", "e", "d">>,
     <<"e", "x", "p", "l", "a", "i", "n", "e", "d">>, <<"d", "e", "s", "c", "r", "i", "b", "e", "d">>, <<"n", "o", "t", "e", "d">>, <<"o", "b", "s", "e", "r", "v", "e", "d">>}

Connectives ==
    {<<"h", "o", "w", "e", "v", "e", "r">>, <<"t", "h", "e", "r", "e", "f", "o", "r", "e">>, <<"m", "o", "r", "e", "o", "v", "e", "r">>, <<"f", "u", "r", "t", "h", "e", "r", "m", "o", "r", "e">>, <<"a", "d", "d", "i", "t", "i", "o", "n", "a", "l", "l", "y">>,
     <<"c", "o", "n", "s", "e", "q", "u", "e", "n", "t", "l", "y">>, <<"m", "e", "a", "n", "w", "h", "i", "l", "e">>, <<"n", "e", "v", "e", "r", "t", "h", "e", "l", "e", "s", "s">>}

OrderWords ==
    {<<"f", "o", "l", "l", "o", "w", "i", "n", "g">>, <<"p", "r", "e", "v", "i", "o", "u", "s">>, <<"n", "e", "x", "t">>, <<"a", "b", "o", "v", "e">>, <<"b", "e", "l", "o", "w">>, <<"f", "i", "r", "s", "t">>,
     <<"s", "e", "c", "o", "n", "d">>, <<"t", "h", "i", "r", "d">>, <<"l", "a", "s", "t">>}

LinkingPhrases ==
    {<<"i", "n", " ", "o", "r", "d", "e", "r", " ", "t", "o">>, <<"a", "s", " ", "w", "e", "l", "l", " ", "a", "s">>, <<"s", "u", "c", "h", " ", "a", "s">>, <<"f", "o", "r", " ", "e", "x", "a", "m", "p", "l", "e">>,
     <<"f", "o", "r", " ", "i", "n", "s", "t", "a", "n", "c", "e">>, <<"i", "n", " ", "a", "d", "d", "i", "t", "i", "o", "n">>, <<"i", "n", " ", "c", "o", "n", "t", "r", "a", "s", "t">>}

ExistencePhrases ==
    {<<"i", "t", " ", "i", "s">>, <<"t", "h", "e", "r", "e", " ", "i", "s">>, <<"t", "h", "e", "r", "e", " ", "a", "r", "e">>, <<"t", "h", "i", "s", " ", "i", "s">>, <<"t", "h", "a", "t", " ", "i", "s">>,
     <<"t", "h", "e", "s", "e", " ", "a", "r", "e">>, <<"t", "h", "o", "s", "e", " ", "a", "r", "e">>}

Auxiliaries ==
    {<<"c", "a", "n", " ", "b", "e">>, <<"w", "i", "l", "l", " ", "b", "e">>, <<"h", "a", "s", " ", "b", "e", "e", "n">>, <<"h", "a", "v", "e", " ", "b", "e", "e", "n">>, <<"w", "a", "s">>, <<"w", "e", "r", "e">>,
     <<"a", "r", "e">>, <<"i", "s">>}

\* r'\b(can be|...|is)\s+\w+ed\b': the run of word characters behind the
\* spaces ends in "ed" and has a character before it
HasPassiveVoice(t) ==
    LET starts == StepSpaces(t, StepWords(t, Auxiliaries, StepBoundary(t, Anywhere(t))))
        ends == {j \in StepWordChars(t, starts) : j >= 3 /\ MatchAt(t, <<"e", "d">>, j - 2)}
    IN  StepBoundary(t, {j \in ends :
            \E i \in starts : i <= j - 3 /\ \A k \in i..(j - 1) : IsWordChar(t[k])}) # {}

\* r'\([^)]*\)'
HasParenthetical(t) ==
    \E i \in 1..Len(t) : \E j \in (i + 1)..Len(t) : t[i] = "(" /\ t[j] = ")"

\* the pattern for bullet points, r'^\s*[...]\s+': of the three bullet
\* characters of its class only the hyphen is in the alphabet of the texts here
StartsWithBullet(t) ==
    \E i \in 1..(Len(t) - 1) :
        /\ \A k \in 1..(i - 1) : IsSpace(t[k])
        /\ t[i] = "-"
        /\ IsSpace(t[i + 1])

\* any(re.search(pattern, text, re.IGNORECASE) for pattern in body_indicators),
\* on the lowercased text
MatchesBodyIndicator(t) ==
    \/ HasWordOf(t, ReportingVerbs)
    \/ HasWordOf(t, Connectives)
    \/ StepBoundary(t, StepWords(t, OrderWords, StepSpaces(t,
           StepWords(t, {<<"t", "h", "e">>, <<"a">>, <<"a", "n">>}, StepBoundary(t, Anywhere(t)))))) # {}
    \/ HasPhraseOf(t, LinkingPhrases)
    \/ HasPhraseOf(t, ExistencePhrases)
    \/ HasPassiveVoice(t)
    \/ HasParenthetical(t)
    \/ StartsWithBullet(t)

\* '"' in text or "'" in text or re.search(r'\[\d+\]|\(\d+\)', text)
HasQuoteOrCitation(t) ==
    \/ \E i \in 1..Len(t) : t[i] \in {"\"", "'"}
    \/ StepWords(t, {<<"]">>}, StepDigits(t, StepWords(t, {<<"[">>}, Anywhere(t)))) # {}
    \/ StepWords(t, {<<")">>}, StepDigits(t, StepWords(t, {<<"(">>}, Anywhere(t)))) # {}

FunctionWords ==
    {<<"t", "h", "e">>, <<"a">>, <<"a", "n">>, <<"t", "h", "i", "s">>, <<"t", "h", "a", "t">>, <<"t", "h", "e", "s", "e">>, <<"t", "h", "o", "s", "e">>, <<"i", "n">>,
     <<"o", "n">>, <<"a", "t">>, <<"b", "y">>, <<"f", "o", "r">>, <<"w", "i", "t", "h">>, <<"f", "r", "o", "m">>, <<"t", "o">>, <<"o", "f">>}

\* len(re.findall(r'\b(the|a|...|of)\b', text, re.IGNORECASE))
FunctionWordCount(t) ==
    LET words == WordRuns(Lower(t))
    IN  Cardinality({k \in 1..Len(words) : words[k] \in FunctionWords})

\* re.match(r'^\s*\d+\s*$', text) or re.match(r'^(page|p\.)\s*\d+', text,
\* re.IGNORECASE), on the lowercased text
IsPageReference(t) ==
    \/ /\ t # <<>>
       /\ \A i \in 1..Len(t) : t[i] \in Digits \/ IsSpace(t[i])
       /\ Len(Split(t)) = 1
    \/ LET word == StepWords(t, {<<"p", "a", "g", "e">>, <<"p", ".">>}, {1})
       IN  StepDigits(t, word \cup StepSpaces(t, word)) # {}

\* re.search(r'(http|www\.|@|\.com|\.org|\.edu|\.gov)', text, re.IGNORECASE)
HasAddress(t) ==
    StepWords(t, {<<"h", "t", "t", "p">>, <<"w", "w", "w", ".">>, <<"@">>, <<".", "c", "o", "m">>, <<".", "o", "r", "g">>, <<".", "e", "d", "u">>, <<".", "g", "o", "v">>},
              Anywhere(t)) # {}

\* the body text size when no statistics are there
DefaultBodyTextSize == 12

\* is_definitely_not_heading; global_stats is <<>> for the empty dictionary
IsDefinitelyNotHeading(block, stats) ==
    LET text == Strip(block.text)
        low == Lower(text)
        words == Split(text)
        body == IF stats = <<>> THEN DefaultBodyTextSize ELSE stats.body_text_size
    IN  \/ Get(block, "is_inline_bold", FALSE)
        \/ Len(text) < 2
        \/ Len(text) > 120
        \/ Count(text, <<".">>) + Count(text, <<"!">>) + Count(text, <<"?">>) > 1
        \/ MatchesRequirementPattern(low)
        \/ MatchesBodyIndicator(low)
        \/ HasQuoteOrCitation(text)
        \/ 10 * block.size < 9 * body
        \/ Len(words) > 3 /\ 10 * FunctionWordCount(text) > 4 * Len(words)
        \/ IsPageReference(low)
        \/ HasAddress(low)

\* a tagging that never finds a bold block inline
IsInlineBold_Never(blocks, i) == FALSE

\* add_inline_bold_context for the blocks of one page: a bold block is tagged
\* when a block that is not bold has its vertical centre within 5 of the bold
\* block's and begins or ends within 15 of the bold block's other end
IsInlineBold(blocks, i) ==
    LET block == blocks[i]
        Abs(x) == IF x < 0 THEN -x ELSE x
    IN  /\ Get(block, "is_bold", FALSE)
        /\ \E j \in 1..Len(blocks) :
               LET other_block == blocks[j]
               IN  /\ i # j
                   /\ ~Get(other_block, "is_bold", FALSE)
                   /\ Abs((block.bbox[2] + block.bbox[4])
                          - (other_block.bbox[2] + other_block.bbox[4])) <= 10
                   /\ \/ Abs(block.bbox[1] - other_block.bbox[3]) <= 15
                      \/ Abs(block.bbox[3] - other_block.bbox[1]) <= 15

AddInlineBoldContext(blocks) ==
    Seq0([i \in 1..Len(blocks) |->
             [is_inline_bold |-> IsInlineBold(blocks, i)] @@
             [k \in DOMAIN blocks[i] \ {"is_inline_bold"} |-> blocks[i][k]]],
         Len(blocks))

\* A document is a record [readable, pages]: pages[p] is the list of blocks
\* merge_nearby_blocks returns for page p, records [text, font, size, bbox,
\* page, is_bold]; pdfplumber.open raises for a document that is not readable.

\* all_blocks of analyze_document_structure: the blocks of the pages in page
\* order, each page's blocks tagged by add_inline_bold_context
RECURSIVE BlocksOfPages(_)
BlocksOfPages(pages) ==
    IF pages = <<>> THEN <<>>
    ELSE BlocksOfPages(SubSeq(pages, 1, Len(pages) - 1))
             \o AddInlineBoldContext(pages[Len(pages)])

\* identify_body_text_size: the most frequent size, the one met first among
\* equally frequent ones (Counter.most_common), 12 without any block
IdentifyBodyTextSize(sizes) ==
    IF sizes = <<>> THEN DefaultBodyTextSize
    ELSE LET Times(s) == Cardinality({i \in 1..Len(sizes) : sizes[i] = s})
             First(s) == CHOOSE i \in 1..Len(sizes) :
                             sizes[i] = s /\ \A j \in 1..(i - 1) : sizes[j] # s
         IN  CHOOSE s \in ToSet(sizes) :
                 \A t \in ToSet(sizes) :
                     \/ Times(s) > Times(t)
                     \/ Times(s) = Times(t) /\ First(s) <= First(t)

\* an extractor that keeps the statistics of the first document it analysed
GlobalStatsAfter_KeepFirst(stats, all_blocks) ==
    IF stats = <<>>
    THEN [body_text_size |->
              IdentifyBodyTextSize([i \in 1..Len(all_blocks) |-> all_blocks[i].size])]
    ELSE stats

\* self.global_stats once analyze_document_structure has run on a document:
\* assigned anew from the document's blocks, whatever it held (of its entries
\* only body_text_size is read by what follows)
GlobalStatsAfter(stats, all_blocks) ==
    [body_text_size |->
         IdentifyBodyTextSize([i \in 1..Len(all_blocks) |-> all_blocks[i].size])]

\* extract_blocks_advanced behind analyze_document_structure: the blocks that
\* is_definitely_not_heading lets pass, with their features
ExtractBlocksAdvanced(all_raw_blocks, stats) ==
    LET kept == SelectSeq(all_raw_blocks, LAMBDA b : ~IsDefinitelyNotHeading(b, stats))
    IN  Seq0([k \in 1..Len(kept) |-> EnhanceBlockFeatures(kept[k], stats.body_text_size)],
             Len(kept))

\* process for a readable document, on an extractor whose global_stats is
\* stats: the blocks analysed, the statistics left behind, title and outline
Process(doc, stats) ==
    LET all_raw_blocks == BlocksOfPages(doc.pages)
        stats_now == GlobalStatsAfter(stats, all_raw_blocks)
        detected == StrictHeadingDetection(ExtractBlocksAdvanced(all_raw_blocks, stats_now))
    IN  [all_raw_blocks |-> all_raw_blocks,
         global_stats |-> stats_now,
         title |-> detected.title,
         outline |-> detected.outline]

---------------------------------------------------------------------------
(* 1A.py: merging the blocks of one page.  In a block given to             *)
(* merge_nearby_blocks, size is round(size, 1); here it is counted in      *)
(* tenths of a point.                                                      *)

\* the pairs <<larger, smaller>> of sizes below 40.0 whose quotient is 1.2
\* exactly and comes out of the float division as 1.2000000000000002
RatioRoundsAbove == {<<54, 45>>, <<108, 90>>, <<186, 155>>, <<216, 180>>, <<246, 205>>, <<342, 285>>, <<372, 310>>}

\* a test that lets a block that begins before the end of the other follow it
ShouldMergeBlocks_AnyGap(block1, block2) ==
    LET big == IF block1.size >= block2.size THEN block1.size ELSE block2.size
        small == IF block1.size >= block2.size THEN block2.size ELSE block1.size
        Abs(x) == IF x < 0 THEN -x ELSE x
        x_gap == block2.bbox[1] - block1.bbox[3]
    IN  /\ ~(10 * big > 12 * small \/ <<big, small>> \in RatioRoundsAbove)
        /\ block1.is_bold # block2.is_bold =>
               ~(Len(block1.text) > 15 \/ Len(block2.text) > 15)
        /\ Abs((block1.bbox[2] + block1.bbox[4])
               - (block2.bbox[2] + block2.bbox[4])) <= 6
        /\ Abs(x_gap) <= 20

\* should_merge_blocks: max(size) / min(size) > 1.2 refuses, bold against not
\* bold refuses when a text is longer than 15, and then the vertical centres
\* are within 3 and block2 begins 0 to 20 behind the end of block1
ShouldMergeBlocks(block1, block2) ==
    LET big == IF block1.size >= block2.size THEN block1.size ELSE block2.size
        small == IF block1.size >= block2.size THEN block2.size ELSE block1.size
        Abs(x) == IF x < 0 THEN -x ELSE x
        x_gap == block2.bbox[1] - block1.bbox[3]
    IN  /\ ~(10 * big > 12 * small \/ <<big, small>> \in RatioRoundsAbove)
        /\ block1.is_bold # block2.is_bold =>
               ~(Len(block1.text) > 15 \/ Len(block2.text) > 15)
        /\ Abs((block1.bbox[2] + block1.bbox[4])
               - (block2.bbox[2] + block2.bbox[4])) <= 6
        /\ 0 <= x_gap /\ x_gap <= 20

\* blocks.sort(key=lambda b: b["bbox"][0]): stable
SortByLeftEdge(blocks) ==
    LET pos == [i \in 1..Len(blocks) |->
                   1 + Cardinality({j \in 1..Len(blocks) :
                           \/ blocks[j].bbox[1] < blocks[i].bbox[1]
                           \/ j < i /\ blocks[j].bbox[1] = blocks[i].bbox[1]})]
    IN  Seq0([p \in 1..Len(blocks) |-> blocks[CHOOSE i \in 1..Len(blocks) : pos[i] = p]],
             Len(blocks))

\* Counter(values).most_common(1)[0][0]: the most frequent value, the one met
\* first among equally frequent ones
MostCommon(values) ==
    LET Times(v) == Cardinality({i \in 1..Len(values) : values[i] = v})
        First(v) == CHOOSE i \in 1..Len(values) :
                        values[i] = v /\ \A j \in 1..(i - 1) : values[j] # v
    IN  CHOOSE v \in ToSet(values) :
            \A w \in ToSet(values) :
                \/ Times(v) > Times(w)
                \/ Times(v) = Times(w) /\ First(v) <= First(w)

RECURSIVE SumOfCounts(_)
SumOfCounts(blocks) ==
    IF blocks = <<>> THEN 0 ELSE blocks[1].char_count + SumOfCounts(Tail(blocks))

\* merge_block_group: a copy of the leftmost block with the texts joined by
\* spaces, the counts added, the box around all boxes, the most common font
\* and size, and bold when a block of the group is bold
MergeBlockGroup(group) ==
    IF Len(group) = 1 THEN group[1]
    ELSE LET blocks == SortByLeftEdge(group)
             n == Len(blocks)
             Least(k) == CHOOSE v \in {blocks[i].bbox[k] : i \in 1..n} :
                             \A i \in 1..n : v <= blocks[i].bbox[k]
             Most(k) == CHOOSE v \in {blocks[i].bbox[k] : i \in 1..n} :
                            \A i \in 1..n : v >= blocks[i].bbox[k]
         IN  [blocks[1] EXCEPT
                 !.text = Join([i \in 1..n |-> blocks[i].text], <<" ">>),
                 !.char_count = SumOfCounts(blocks),
                 !.bbox = <<Least(1), Least(2), Most(3), Most(4)>>,
                 !.font = MostCommon([i \in 1..n |-> blocks[i].font]),
                 !.size = MostCommon([i \in 1..n |-> blocks[i].size]),
                 !.is_bold = \E i \in 1..n : blocks[i].is_bold]

\* merge_nearby_blocks: each block is tested against the block before it, the
\* last of the current group, so the groups are the longest runs of blocks of
\* which each merges with the one before
MergeNearbyBlocks(blocks) ==
    IF Len(blocks) <= 1 THEN blocks
    ELSE LET n == Len(blocks)
             starts == Ascending({i \in 1..n :
                           i = 1 \/ ~ShouldMergeBlocks(blocks[i - 1], blocks[i])})
             EndOf(k) == IF k = Len(starts) THEN n ELSE starts[k + 1] - 1
         IN  Seq0([k \in 1..Len(starts) |->
                      MergeBlockGroup(SubSeq(blocks, starts[k], EndOf(k)))],
                  Len(starts))

---------------------------------------------------------------------------
(* main.py: PersonaDrivenDocumentAnalyzer.process_documents, and output.py *)

\* The arguments of a run are a record [input_dir, input_dir_exists, listing,
\* manifest, persona, job_to_be_done, ml]: listing is what os.listdir returns
\* for the input directory, manifest is the state of input.json, persona and
\* job_to_be_done are <<>> for None and <<text>> otherwise.

\* os.path.join(input_dir, filename)
PathJoin(input_dir, filename) == input_dir \o <<"/">> \o filename

\* f.lower().endswith('.pdf')
IsPdfName(filename) ==
    /\ Len(filename) >= 4
    /\ SubSeq(Lower(filename), Len(filename) - 3, Len(filename)) = <<".", "p", "d", "f">>

\* load_input_config: input.json is there, parses, and names at least one
\* document with a filename
ManifestLoads(manifest) == manifest.status = "ok" /\ manifest.documents # <<>>

\* pdf_filenames: from input.json, or from the directory scan when loading failed
PdfFilenames(listing, manifest) ==
    IF ManifestLoads(manifest) THEN manifest.documents
    ELSE SelectSeq(listing, IsPdfName)

\* existing_files: the names for which os.path.exists holds, in order
ExistingFiles(listing, pdf_filenames) ==
    SelectSeq(pdf_filenames, LAMBDA f : f \in ToSet(listing))

\* persona and job_to_be_done after the configuration step: the argument, or
\* the value of input.json when the argument is None or empty and input.json
\* loaded
Resolved(argument, manifest, field) ==
    IF ManifestLoads(manifest) /\ (argument = <<>> \/ argument = << <<>> >>)
    THEN <<manifest[field]>>
    ELSE argument

\* the input steps with only the test for the input directory
InputError_DirectoryOnly(run) ==
    IF ~run.input_dir_exists THEN "FileNotFoundError" ELSE "none"

\* the error the input steps of process_documents raise, "none" if they pass
InputError(run) ==
    IF ~run.input_dir_exists THEN "FileNotFoundError"
    ELSE IF PdfFilenames(run.listing, run.manifest) = <<>> THEN "FileNotFoundError"
    ELSE IF ExistingFiles(run.listing, PdfFilenames(run.listing, run.manifest)) = <<>>
    THEN "FileNotFoundError"
    ELSE "none"

\* the loop body with a failure that also drops the sections gathered so far
SectionsAfter_Restart(sections, pdf) ==
    IF pdf.readable THEN sections \o ExtractSectionsWithContent(pdf) ELSE <<>>

\* all_sections after the loop body for one document: extended by its
\* sections, or as before when the extraction raised
SectionsAfter(sections, pdf) ==
    IF pdf.readable THEN sections \o ExtractSectionsWithContent(pdf) ELSE sections

\* the test of line 139 with its answer fixed: the list is never taken as empty
NoSections_Never(sections) == FALSE

\* if not all_sections
NoSections(sections) == sections = <<>>

\* format_output, without the clock readings (timestamp, processing time)
FormatOutput(input_documents, persona_text, job_text, extracted_sections, sub_sections) ==
    [analysis_metadata |->
         [persona |-> persona_text,
          job_to_be_done |-> job_text,
          input_documents |-> input_documents,
          total_sections |-> Len(extracted_sections)],
     ranked_sections |-> extracted_sections,
     sub_section_analysis |-> sub_sections,
     processing_summary |->
         [sections_analyzed |-> Len(extracted_sections),
          documents_processed |-> Len(input_documents)]]


---------------------------------------------------------------------------
(* Inputs and calls of the SectionRanker functions *)

\* the pipeline variables while a single function is applied
PipeIdle ==
    /\ pc = "idle"
    /\ persona = <<>>
    /\ job_to_be_done = <<>>
    /\ pdf_files = <<>>
    /\ doc_idx = 0
    /\ all_sections = <<>>
    /\ failed_docs = {}
    /\ ranked_sections = <<>>
    /\ filtered_sections = <<>>
    /\ balanced_sections = <<>>
    /\ sub_section_analysis = <<>>
    /\ global_stats = <<>>

\* longest section list given to filter_and_deduplicate_sections
MaxDedupLen == 3

\* longest section list given to balance_section_distribution
MaxBalanceLen == 6

ShortContent == <<"x", " ", "y">>

\* contents of more than 10 words: LongB and LongC hold the same words in another order
LongA == <<"x", " ", "x", " ", "x", " ", "x", " ", "x", " ", "x", " ", "x", " ", "x", " ", "x", " ", "x", " ", "x">>

LongB == <<"x", " ", "x", " ", "x", " ", "x", " ", "x", " ", "x", " ", "x", " ", "x", " ", "x", " ", "x", " ", "y">>

LongC == <<"y", " ", "x", " ", "x", " ", "x", " ", "x", " ", "x", " ", "x", " ", "x", " ", "x", " ", "x", " ", "x">>

DedupTitles == {<<>>, <<" ">>, <<"a", " ", "b">>, <<"b", " ", "a">>, <<"A", " ", "b", " ">>, <<"a">>, <<"c">>}

DedupSections ==
    {[document |-> "d1", content |-> ShortContent]}
    \cup {[document |-> "d1", section_title |-> t, content |-> ShortContent] :
              t \in DedupTitles}
    \cup {[document |-> "d1", section_title |-> t, content |-> c] :
              t \in {<<"a">>, <<"c">>}, c \in {LongA, LongB, LongC}}

BalanceKinds == {"d1", "d2"} \X {Rat(1, 2), Rat(1, 1)}

\* section i of a balance input: page_number tells the sections apart, and the
\* ranks on entry have gaps
BalanceSection(i, kind) ==
    [document |-> kind[1], section_title |-> <<"t">>, content |-> ShortContent,
     page_number |-> i, relevance_score |-> kind[2], importance_rank |-> 2 * i]

\* the lists given to filter_and_deduplicate_sections
InitDedupInput ==
    \E n \in 0..MaxDedupLen : \E s \in [1..n -> DedupSections] :
        args = [fn |-> "filter_and_deduplicate_sections", sections |-> s]

\* ranked sections, best first: the second has the title of the first, the
\* third its content, the fourth the words of the second in another order
RankedLine ==
    <<[document |-> "d1", section_title |-> <<"a">>, content |-> LongA,
       relevance_score |-> Rat(9, 10), importance_rank |-> 1],
      [document |-> "d1", section_title |-> <<"a">>, content |-> LongB,
       relevance_score |-> Rat(4, 5), importance_rank |-> 2],
      [document |-> "d2", section_title |-> <<"c">>, content |-> LongA,
       relevance_score |-> Rat(4, 5), importance_rank |-> 3],
      [document |-> "d2", section_title |-> <<"c">>, content |-> LongC,
       relevance_score |-> Rat(7, 10), importance_rank |-> 4],
      [document |-> "d2", section_title |-> <<"c">>, content |-> ShortContent,
       relevance_score |-> Rat(1, 2), importance_rank |-> 5],
      [document |-> "d1", section_title |-> <<"a">>, content |-> ShortContent,
       relevance_score |-> Rat(1, 2), importance_rank |-> 6]>>

\* lists as rank_sections leaves them, given to filter_and_deduplicate_sections
InitRankedDedupInput ==
    \E chosen \in SUBSET (1..Len(RankedLine)) :
        /\ chosen # {}
        /\ Cardinality(chosen) <= MaxDedupLen
        /\ args = [fn |-> "filter_and_deduplicate_sections",
                   sections |-> Seq0([k \in 1..Cardinality(chosen) |->
                                         RankedLine[Ascending(chosen)[k]]],
                                     Cardinality(chosen))]

\* the lists given to balance_section_distribution
InitBalanceInput ==
    \E n \in 0..MaxBalanceLen : \E f \in [1..n -> BalanceKinds] :
        args = [fn |-> "balance_section_distribution",
                sections |-> [i \in 1..n |-> BalanceSection(i, f[i])]]

\* text * n
Repeat(text, n) ==
    Seq0([i \in 1..(n * Len(text)) |-> text[((i - 1) % Len(text)) + 1]], n * Len(text))

\* a sentence every domain keeps, and one every domain drops
KeptSentence == <<"T", "h", "e", " ", "s", "t", "u", "d", "y", " ", "s", "h", "o", "w", "s", " ", "t", "h", "e", " ", "r", "e", "s", "u", "l", "t", "s", " ", "o", "f", " ", "3", " ", "m", "e", "t", "h", "o", "d", "s", ".", " ">>

DroppedSentence == <<"a", "b", " ", "c", "d", ".", " ">>

\* contents up to, at and over 1000 characters, the filter keeping little or much
RefineContents ==
    {<<>>, DroppedSentence, KeptSentence,
     KeptSentence \o Repeat(DroppedSentence, 4),
     KeptSentence \o Repeat(DroppedSentence, 30),
     Repeat(DroppedSentence, 142) \o <<"a", "b", "c", "d", "e", ".">>,
     Repeat(DroppedSentence, 143),
     KeptSentence \o Repeat(DroppedSentence, 140),
     Repeat(KeptSentence, 25)}

RefineDomains == {"academic", "business", "educational", "general"}

\* the sections given to refine_section_text
InitRefineInput ==
    \E d \in RefineDomains :
    \E s \in {[section_title |-> <<"t">>]}
                \cup {[section_title |-> <<"t">>, content |-> c] : c \in RefineContents} :
        args = [fn |-> "refine_section_text", domain |-> d, section |-> s]

InitRanker ==
    /\ call = "none"
    /\ (InitDedupInput \/ InitRankedDedupInput \/ InitBalanceInput \/ InitRefineInput)
    /\ result = <<>>
    /\ PipeIdle

CallFilterAndDeduplicate ==
    /\ call = "none"
    /\ args.fn = "filter_and_deduplicate_sections"
    /\ call' = "filter_and_deduplicate_sections"
    /\ result' = FilterAndDeduplicateSections(args.sections)
    /\ UNCHANGED <<args, pipeVars>>

CallBalance ==
    /\ call = "none"
    /\ args.fn = "balance_section_distribution"
    /\ call' = "balance_section_distribution"
    /\ result' = BalanceSectionDistribution(args.sections, MaxPerDocument)
    /\ UNCHANGED <<args, pipeVars>>

CallRefineSectionText ==
    /\ call = "none"
    /\ args.fn = "refine_section_text"
    /\ call' = "refine_section_text"
    /\ result' = RefineSectionText(args.section, args.domain)
    /\ UNCHANGED <<args, pipeVars>>

NextRanker == CallFilterAndDeduplicate \/ CallBalance \/ CallRefineSectionText

SpecRanker == InitRanker /\ [][NextRanker]_vars


---------------------------------------------------------------------------
(* Inputs and calls of RelevanceScorer.rank_sections *)

\* longest section list given to rank_sections
MaxRankLen == 3

Personas == {<<>>, <<"I", "n", "v", "e", "s", "t", "m", "e", "n", "t", " ", "A", "n", "a", "l", "y", "s", "t">>}

Jobs == {<<>>, <<"A", "n", "a", "l", "y", "z", "e", " ", "r", "e", "v", "e", "n", "u", "e", " ", "t", "r", "e", "n", "d", "s">>, <<"l", "i", "t", "e", "r", "a", "t", "u", "r", "e", " ", "r", "e", "v", "i", "e", "w", " ", "e", "x", "a", "m", " ", "f", "i", "n", "a", "n", "c", "i", "a", "l">>}

\* the learned expander: absent, raising, or returning these lists
MlOutcomes ==
    {[status |-> "unavailable"],
     [status |-> "raises"],
     [status |-> "ok", expanded_persona |-> <<<<"r", "e", "v", "e", "n", "u", "e">>>>,
      expanded_job |-> <<<<"r", "e", "v", "e", "n", "u", "e">>, <<"d", "a", "t", "a">>>>, domain_terms |-> <<<<"m", "a", "r", "k", "e", "t">>>>]}

\* a content of 50 words that holds every content-quality indicator
FiftyWords ==
    <<"d", "e", "f", "i", "n", "i", "t", "i", "o", "n", " ", "e", "x", "a", "m", "p", "l", "e", " ", "r", "e", "s", "u", "l", "t", " ", "m", "e", "t", "h", "o", "d", " ", "a", "n", "a", "l", "y", "s", "i", "s", " ", "d", "a", "t", "a", " ", "r", "e", "v", "e", "n", "u", "e">>
        \o [i \in 1..86 |-> IF i % 2 = 1 THEN " " ELSE "x"]

\* sections 2 and 3 differ in the page only, section 5 has no title and no content
ScorerSections ==
    {[document |-> "d1", page_number |-> 1, section_title |-> <<"F", "i", "n", "a", "n", "c", "i", "a", "l", " ", "R", "e", "v", "i", "e", "w", " ", "K", "e", "y">>,
      content |-> <<"r", "e", "v", "e", "n", "u", "e", " ", "r", "e", "v", "e", "n", "u", "e", " ", "r", "e", "v", "e", "n", "u", "e", " ", "d", "a", "t", "a">>],
     [document |-> "d1", page_number |-> 2, section_title |-> <<"A", "p", "p", "e", "n", "d", "i", "x">>,
      content |-> <<"x", " ", "y">>],
     [document |-> "d1", page_number |-> 3, section_title |-> <<"A", "p", "p", "e", "n", "d", "i", "x">>,
      content |-> <<"x", " ", "y">>],
     [document |-> "d2", page_number |-> 5]}

LongSection ==
    [document |-> "d2", page_number |-> 4, section_title |-> <<"K", "e", "y", " ", "R", "e", "v", "e", "n", "u", "e">>,
     content |-> FiftyWords]

\* the section lists given to rank_sections: every list of the short sections up to
\* MaxRankLen, and the long section alone, before and behind a short one
ScorerLists ==
    UNION {[1..n -> ScorerSections] : n \in 0..MaxRankLen}
    \cup {<<LongSection>>}
    \cup {<<LongSection, x>> : x \in ScorerSections}
    \cup {<<x, LongSection>> : x \in ScorerSections}

\* a call of the expander: it raises, or it returns a list
Raising == [raises |-> TRUE]

Returning(value) == [raises |-> FALSE, value |-> value]

\* the module of the expander imports or not, its constructor raises or not,
\* and each of its three calls raises or returns a list
ExpanderEnvironments ==
    [import_ok : BOOLEAN, construct_ok : BOOLEAN,
     expand_persona : {Raising, Returning(<<<<"r", "e", "v", "e", "n", "u", "e">>>>)},
     expand_job : {Raising, Returning(<<<<"r", "e", "v", "e", "n", "u", "e">>, <<"d", "a", "t", "a">>>>)},
     domain_terms : {Raising, Returning(<<>>), Returning(<<<<"m", "a", "r", "k", "e", "t">>>>)}]

\* the texts given to analyze_persona_and_job
InitAnalyzeInput ==
    \E p \in Personas : \E j \in Jobs : \E env \in ExpanderEnvironments :
        args = [fn |-> "analyze_persona_and_job", persona |-> p,
                job_to_be_done |-> j, env |-> env]

InitScorer ==
    /\ call = "none"
    /\ \/ \E s \in ScorerLists :
          \E p \in Personas : \E j \in Jobs : \E m \in MlOutcomes :
              args = [fn |-> "rank_sections", sections |-> s, persona |-> p,
                      job_to_be_done |-> j, ml |-> m]
       \/ InitAnalyzeInput
    /\ result = <<>>
    /\ PipeIdle

CallRankSections ==
    /\ call = "none"
    /\ args.fn = "rank_sections"
    /\ call' = "rank_sections"
    /\ result' = RankSections(args.sections, args.persona, args.job_to_be_done, args.ml)
    /\ UNCHANGED <<args, pipeVars>>

\* RelevanceScorer() in the environment given, then analyze_persona_and_job
CallAnalyzePersonaAndJob ==
    /\ call = "none"
    /\ args.fn = "analyze_persona_and_job"
    /\ call' = "analyze_persona_and_job"
    /\ result' = AnalyzePersonaAndJob(args.persona, args.job_to_be_done,
                                      MlExpanderOutcome(args.env))
    /\ UNCHANGED <<args, pipeVars>>

NextScorer == CallRankSections \/ CallAnalyzePersonaAndJob

SpecScorer == InitScorer /\ [][NextScorer]_vars

---------------------------------------------------------------------------
(* Inputs and calls of SectionExtractor.extract_sections_with_content *)

\* most headings in an outline
MaxHeadings == 3

\* most pages in a document
MaxPages == 2

\* heading k of an outline carries the k-th of these texts
HeadingTexts == <<<<"A", "b">>, <<"C", "d">>, <<"E", "f">>, <<"G", "h">>>>

\* page texts: headings with a body, a heading alone, body only, a heading
\* followed by an e-mail address only, the headings in the other order, a
\* heading followed by a URL only
PageTexts ==
    {<<"A", "b", " ", "x", "\n", "C", "d", " ", " ", "y">>, <<"A", "b">>, <<" ", "x", " ">>, <<"A", "b", " ", "a", "@", "b", ".", "c", " ", "C", "d">>, <<"C", "d", " ", "y", " ", "A", "b", " ", "x">>,
     <<"E", "f", " ", "h", "t", "t", "p", ":", "/", "/", "u", ".", "v", " ", "A", "b", " ", "x">>}

\* heading k on page p; the first heading has no y_position, the others carry
\* one that runs against their order in the outline
OutlineHeading(k, p) ==
    LET h == [level |-> "H1", text |-> HeadingTexts[k], page |-> p, confidence |-> 7 + k]
    IN  IF k > 1 THEN [y_position |-> 10 - k] @@ h ELSE h

PageDigits == <<"1", "2", "3", "4">>

\* a word only page p holds: the letter given and the number of the page
Marker(letter, p) == <<letter, PageDigits[p]>>

\* what a page holds between its markers: both headings, one of them, none,
\* or both in the other order
PageKinds == {"both", "first", "second", "none", "swapped"}

\* the text of page p: marker a at its start, z at its end, m between headings
MarkedPage(p, kind) ==
    LET a == Marker("a", p) \o <<" ">>
        m == <<" ">> \o Marker("m", p) \o <<" ">>
        z == <<" ">> \o Marker("z", p)
    IN  CASE kind = "both" -> a \o HeadingTexts[1] \o m \o HeadingTexts[2] \o z
          [] kind = "first" -> a \o HeadingTexts[1] \o z
          [] kind = "second" -> a \o HeadingTexts[2] \o z
          [] kind = "none" -> a \o Marker("m", p) \o z
          [] kind = "swapped" -> a \o HeadingTexts[2] \o m \o HeadingTexts[1] \o z

\* a heading and the heading behind it in the sorted outline, which is on the
\* same page or a later one, or the last heading of the outline
InitContentInput ==
    \E np \in 1..MaxPages : \E kinds \in [1..np -> PageKinds] :
    \E p1 \in 1..np : \E p2 \in {0} \cup (p1..np) :
        args = [fn |-> "_extract_section_content",
                doc |-> [p \in 1..np |-> MarkedPage(p, kinds[p])],
                current_heading |-> OutlineHeading(1, p1),
                next_heading |-> IF p2 = 0 THEN <<>> ELSE <<OutlineHeading(2, p2)>>]

\* the documents given to extract_sections_with_content
InitOutlineInput ==
    \E n \in 0..MaxHeadings : \E hp \in [1..n -> 1..MaxPages] :
    \E np \in 1..MaxPages : \E pages \in [1..np -> PageTexts] :
        args = [fn |-> "extract_sections_with_content",
                pdf |-> [path |-> <<"i", "n", "/", "d", "1", ".", "p", "d", "f">>,
                         readable |-> TRUE,
                         outline |-> [k \in 1..n |-> OutlineHeading(k, hp[k])],
                         pages |-> pages]]

InitExtractor ==
    /\ call = "none"
    /\ (InitContentInput \/ InitOutlineInput)
    /\ result = <<>>
    /\ PipeIdle

CallExtractSectionsWithContent ==
    /\ call = "none"
    /\ args.fn = "extract_sections_with_content"
    /\ call' = "extract_sections_with_content"
    /\ result' = ExtractSectionsWithContent(args.pdf)
    /\ UNCHANGED <<args, pipeVars>>

CallExtractSectionContent ==
    /\ call = "none"
    /\ args.fn = "_extract_section_content"
    /\ call' = "_extract_section_content"
    /\ result' = ExtractSectionContent(args.doc, args.current_heading, args.next_heading)
    /\ UNCHANGED <<args, pipeVars>>

NextExtractor == CallExtractSectionsWithContent \/ CallExtractSectionContent

SpecExtractor == InitExtractor /\ [][NextExtractor]_vars

---------------------------------------------------------------------------
(* Inputs and calls of HeadingOnlyPDFExtractor.strict_heading_detection *)

\* most blocks in a list given to strict_heading_detection
MaxBlocks == 3

RawBlock(text, size, is_bold, is_inline_bold, page, x0, y0) ==
    [text |-> text, size |-> size, font |-> "Helvetica", is_bold |-> is_bold,
     is_inline_bold |-> is_inline_bold, page |-> page,
     bbox |-> <<x0, y0, x0 + 50, y0 + size>>]

\* blocks of confidence 7, of more and of less, blocks the final validation
\* rejects, blocks of equal and of similar text, and a block without text
RawBlocks ==
    {RawBlock(<<"I", "n", "t", "r", "o", "d", "u", "c", "t", "i", "o", "n">>, 14, FALSE, FALSE, 1, 50, 100),
     RawBlock(<<"I", "n", "t", "r", "o", "d", "u", "c", "t", "i", "o", "n">>, 10, TRUE, TRUE, 1, 80, 300),
     RawBlock(<<"R", "e", "s", "u", "l", "t", "s">>, 10, FALSE, FALSE, 2, 50, 100),
     RawBlock(<<" ", "R", "e", "s", "u", "l", "t", "s", " ">>, 12, FALSE, FALSE, 1, 50, 500),
     RawBlock(<<"r", "e", "s", "u", "l", "t", "s", " ", "a", "r", "e", " ", "s", "h", "o", "w", "n">>, 14, TRUE, FALSE, 1, 50, 200),
     RawBlock(<<"1", ".", " ", "S", "c", "o", "p", "e">>, 10, FALSE, FALSE, 2, 50, 200),
     RawBlock(<<"I", "n", "t", "r", "o", "d", "u", "c", "t", "i", "o", "n", "s">>, 14, FALSE, FALSE, 2, 50, 50),
     RawBlock(<<"F", "i", "g", "u", "r", "e", " ", "1">>, 14, TRUE, FALSE, 2, 50, 300),
     RawBlock(<<"N", "o", "t", "e", "s", ":">>, 10, TRUE, FALSE, 2, 200, 400),
     RawBlock(<<>>, 14, TRUE, FALSE, 1, 50, 600),
     RawBlock(<<"d", "a", "t", "a">>, 12, FALSE, FALSE, 2, 50, 500),
     RawBlock(<<"d", "a", "t", "a", " ", "s", "e", "t", ":">>, 10, FALSE, FALSE, 1, 50, 700)}

\* the blocks extract_blocks_advanced hands on: the raw blocks with their
\* features, in a document whose body text is 10 points high
EnhancedBlocks == {EnhanceBlockFeatures(b, 10) : b \in RawBlocks}

\* most blocks behind a candidate list given to assign_heading_levels
MaxCandidates == 4

\* the blocks of a page pair in reading order: headings of six sizes, two of
\* them of one size at one place, the largest and most confident on the
\* second page
LevelBlocks ==
    <<RawBlock(<<"S", "u", "m", "m", "a", "r", "y">>, 14, FALSE, FALSE, 1, 50, 100),
      RawBlock(<<"D", "i", "s", "c", "u", "s", "s", "i", "o", "n">>, 14, TRUE, FALSE, 1, 50, 100),
      RawBlock(<<"R", "e", "s", "u", "l", "t", "s">>, 16, FALSE, FALSE, 1, 50, 300),
      RawBlock(<<"A", "b", "s", "t", "r", "a", "c", "t">>, 10, FALSE, FALSE, 1, 50, 500),
      RawBlock(<<"I", "n", "t", "r", "o", "d", "u", "c", "t", "i", "o", "n">>, 18, TRUE, FALSE, 2, 50, 100),
      RawBlock(<<"O", "v", "e", "r", "v", "i", "e", "w">>, 12, FALSE, FALSE, 2, 50, 300),
      RawBlock(<<"B", "a", "c", "k", "g", "r", "o", "u", "n", "d">>, 11, FALSE, FALSE, 2, 50, 500)>>

\* the candidate lists strict_heading_detection gives to assign_heading_levels,
\* made of some of the blocks above
InitLevelsInput ==
    \E picked \in SUBSET (1..Len(LevelBlocks)) :
        /\ Cardinality(picked) <= MaxCandidates
        /\ LET at == Ascending(picked)
               blocks == Seq0([k \in 1..Len(at) |->
                                  EnhanceBlockFeatures(LevelBlocks[at[k]], 10)], Len(at))
           IN  args = [fn |-> "assign_heading_levels",
                       candidates |-> RemoveDuplicateHeadings(
                                          SortCandidates(HeadingCandidates(blocks)))]

\* the blocks of a page pair in reading order: headings of equal text, of
\* texts one letter apart and of texts one inside the other, the more
\* confident of each pair on the second page but for the last pair
DuplicateBlocks ==
    <<RawBlock(<<"s", "u", "m", "m", "a", "r", "y", " ">>, 12, FALSE, FALSE, 1, 50, 50),
      RawBlock(<<"S", "u", "m", "m", "a", "r", "y">>, 10, FALSE, FALSE, 1, 50, 100),
      RawBlock(<<"O", "v", "e", "r", "v", "i", "e", "w">>, 12, FALSE, FALSE, 1, 50, 300),
      RawBlock(<<"R", "e", "s", "u", "l", "t", "s">>, 10, FALSE, FALSE, 1, 50, 500),
      RawBlock(<<"B", "a", "c", "k", "g", "r", "o", "u", "n", "d", "s">>, 12, FALSE, FALSE, 1, 50, 600),
      RawBlock(<<"S", "u", "m", "m", "a", "r", "y">>, 14, TRUE, FALSE, 2, 50, 100),
      RawBlock(<<"O", "v", "e", "r", "v", "i", "e", "w", "s">>, 16, TRUE, FALSE, 2, 50, 300),
      RawBlock(<<"R", "e", "s", "u", "l", "t", "s", " ", "T", "a", "b", "l", "e">>, 14, TRUE, FALSE, 2, 50, 500),
      RawBlock(<<"B", "a", "c", "k", "g", "r", "o", "u", "n", "d">>, 12, FALSE, FALSE, 2, 50, 700)>>

\* the candidate lists strict_heading_detection gives to
\* remove_duplicate_headings, made of some of the blocks above
InitDuplicatesInput ==
    \E picked \in SUBSET (1..Len(DuplicateBlocks)) :
        /\ Cardinality(picked) <= MaxCandidates
        /\ LET at == Ascending(picked)
               blocks == Seq0([k \in 1..Len(at) |->
                                  EnhanceBlockFeatures(DuplicateBlocks[at[k]], 10)], Len(at))
           IN  args = [fn |-> "remove_duplicate_headings",
                       candidates |-> SortCandidates(HeadingCandidates(blocks))]

InitHeading ==
    /\ call = "none"
    /\ \/ \E n \in 0..MaxBlocks : \E blocks \in [1..n -> EnhancedBlocks] :
              args = [fn |-> "strict_heading_detection", blocks |-> blocks]
       \/ InitLevelsInput
       \/ InitDuplicatesInput
    /\ result = <<>>
    /\ PipeIdle

CallStrictHeadingDetection ==
    /\ call = "none"
    /\ args.fn = "strict_heading_detection"
    /\ call' = "strict_heading_detection"
    /\ result' = StrictHeadingDetection(args.blocks)
    /\ args' = [args EXCEPT !.blocks = BlocksAfterDetection(@)]
    /\ UNCHANGED pipeVars

\* the same extractor is given the same list once more; both answers are kept
CallStrictHeadingDetectionAgain ==
    /\ call = "strict_heading_detection"
    /\ call' = "strict_heading_detection twice"
    /\ result' = [first |-> result, second |-> StrictHeadingDetection(args.blocks)]
    /\ args' = [args EXCEPT !.blocks = BlocksAfterDetection(@)]
    /\ UNCHANGED pipeVars

CallAssignHeadingLevels ==
    /\ call = "none"
    /\ args.fn = "assign_heading_levels"
    /\ call' = "assign_heading_levels"
    /\ result' = AssignHeadingLevels(args.candidates)
    /\ UNCHANGED <<args, pipeVars>>

CallRemoveDuplicateHeadings ==
    /\ call = "none"
    /\ args.fn = "remove_duplicate_headings"
    /\ call' = "remove_duplicate_headings"
    /\ result' = RemoveDuplicateHeadings(args.candidates)
    /\ UNCHANGED <<args, pipeVars>>

NextHeading ==
    \/ CallStrictHeadingDetection
    \/ CallAssignHeadingLevels
    \/ CallRemoveDuplicateHeadings

SpecHeading == InitHeading /\ [][NextHeading]_vars

\* most blocks in a list strict_heading_detection is given twice
MaxRepeatBlocks == 2

InitHeadingTwice ==
    /\ call = "none"
    /\ \E n \in 0..MaxRepeatBlocks : \E blocks \in [1..n -> EnhancedBlocks] :
           args = [fn |-> "strict_heading_detection", blocks |-> blocks]
    /\ result = <<>>
    /\ PipeIdle

NextHeadingTwice ==
    \/ CallStrictHeadingDetection
    \/ CallStrictHeadingDetectionAgain

SpecHeadingTwice == InitHeadingTwice /\ [][NextHeadingTwice]_vars

---------------------------------------------------------------------------
(* Inputs and calls of HeadingOnlyPDFExtractor.process on one extractor *)

\* most documents one extractor is given in a row
MaxProcessDocs == 2

PageBlock(text, size, is_bold, page, x0, y0, x1) ==
    [text |-> text, size |-> size,
     font |-> IF is_bold THEN "Helvetica-Bold" ELSE "Helvetica",
     is_bold |-> is_bold, page |-> page, bbox |-> <<x0, y0, x1, y0 + size>>]

\* two lines of body text in the size given
BodyLines(size) ==
    <<PageBlock(<<"t", "h", "e", " ", "d", "a", "t", "a", " ", "i", "s", " ", "s", "h", "o", "w", "n", " ", "h", "e", "r", "e", ".">>, size, FALSE, 1, 50, 100, 250),
      PageBlock(<<"w", "e", " ", "s", "e", "e", " ", "m", "o", "r", "e", " ", "o", "f", " ", "i", "t", ".">>, size, FALSE, 1, 50, 120, 250)>>

\* what a document holds beside its body text: a larger heading, a bold word
\* inside a line, a bold line of its own, a bold word far from the text of its
\* line, a bold word beside text of the next line, two bold words side by
\* side, and an inline bold word with headings on two pages
DocumentKinds == {"heading", "inline", "alone", "far", "below", "pair", "mixed"}

PagesOf(kind, size) ==
    CASE kind = "heading" ->
           <<BodyLines(size) \o <<PageBlock(<<"R", "e", "s", "u", "l", "t", "s">>, 12, FALSE, 1, 50, 60, 120)>> >>
      [] kind = "inline" ->
           <<BodyLines(size) \o
             <<PageBlock(<<"w", "e", " ", "n", "o", "t", "e">>, size, FALSE, 1, 50, 200, 100),
               PageBlock(<<"I", "m", "p", "o", "r", "t", "a", "n", "t">>, size, TRUE, 1, 105, 200, 160),
               PageBlock(<<"p", "o", "i", "n", "t", "s">>, size, FALSE, 1, 170, 200, 210)>> >>
      [] kind = "alone" ->
           <<BodyLines(size) \o <<PageBlock(<<"I", "m", "p", "o", "r", "t", "a", "n", "t">>, size, TRUE, 1, 50, 200, 110)>> >>
      [] kind = "far" ->
           <<BodyLines(size) \o
             <<PageBlock(<<"I", "m", "p", "o", "r", "t", "a", "n", "t">>, size, TRUE, 1, 50, 200, 110),
               PageBlock(<<"w", "e", " ", "n", "o", "t", "e">>, size, FALSE, 1, 200, 200, 250)>> >>
      [] kind = "below" ->
           <<BodyLines(size) \o
             <<PageBlock(<<"I", "m", "p", "o", "r", "t", "a", "n", "t">>, size, TRUE, 1, 50, 200, 110),
               PageBlock(<<"w", "e", " ", "n", "o", "t", "e">>, size, FALSE, 1, 115, 212, 160)>> >>
      [] kind = "pair" ->
           <<BodyLines(size) \o
             <<PageBlock(<<"I", "m", "p", "o", "r", "t", "a", "n", "t">>, size, TRUE, 1, 50, 200, 110),
               PageBlock(<<"S", "u", "m", "m", "a", "r", "y">>, size, TRUE, 1, 115, 200, 170)>> >>
      [] kind = "mixed" ->
           <<BodyLines(size) \o
             <<PageBlock(<<"R", "e", "s", "u", "l", "t", "s">>, 12, FALSE, 1, 50, 60, 120),
               PageBlock(<<"I", "m", "p", "o", "r", "t", "a", "n", "t">>, size, TRUE, 1, 105, 200, 160),
               PageBlock(<<"w", "e", " ", "n", "o", "t", "e">>, size, FALSE, 1, 50, 200, 100)>>,
             <<PageBlock(<<"O", "v", "e", "r", "v", "i", "e", "w">>, 16, FALSE, 2, 50, 60, 130),
               PageBlock(<<"I", "m", "p", "o", "r", "t", "a", "n", "t">>, size, TRUE, 2, 50, 200, 110)>> >>

\* documents with body text of 10 points, three of them also with body text
\* of 14 points, and one that cannot be opened
ProcessDocuments ==
    {[readable |-> TRUE, pages |-> PagesOf(kind, 10)] : kind \in DocumentKinds}
    \cup {[readable |-> TRUE, pages |-> PagesOf(kind, 14)] :
              kind \in {"heading", "inline", "mixed"}}
    \cup {[readable |-> FALSE, pages |-> <<>>]}

InitProcess ==
    /\ call = "none"
    /\ \E n \in 0..MaxProcessDocs : \E docs \in [1..n -> ProcessDocuments] :
           args = [fn |-> "process", docs |-> docs]
    /\ result = <<>>
    /\ PipeIdle

\* process(pdf_path) for the next document: the extractor's statistics are
\* replaced and the blocks analysed, the title and the outline are kept
ProcessDocument ==
    /\ args.fn = "process"
    /\ doc_idx < Len(args.docs)
    /\ args.docs[doc_idx + 1].readable
    /\ \E done \in {Process(args.docs[doc_idx + 1], global_stats)} :
           /\ global_stats' = done.global_stats
           /\ result' = Append(result, [all_raw_blocks |-> done.all_raw_blocks,
                                        title |-> done.title,
                                        outline |-> done.outline])
    /\ call' = "process"
    /\ doc_idx' = doc_idx + 1
    /\ UNCHANGED <<args, pc, persona, job_to_be_done, pdf_files, all_sections,
                   failed_docs, ranked_sections, filtered_sections,
                   balanced_sections, sub_section_analysis>>

\* process(pdf_path) for a document that cannot be opened: pdfplumber.open
\* raises before anything of the extractor is assigned
ProcessRaises ==
    /\ args.fn = "process"
    /\ doc_idx < Len(args.docs)
    /\ ~args.docs[doc_idx + 1].readable
    /\ result' = Append(result, [error |-> "Exception"])
    /\ call' = "process"
    /\ doc_idx' = doc_idx + 1
    /\ UNCHANGED <<args, pc, persona, job_to_be_done, pdf_files, all_sections,
                   failed_docs, ranked_sections, filtered_sections,
                   balanced_sections, sub_section_analysis, global_stats>>

NextProcess ==
    \/ ProcessDocument
    \/ ProcessRaises

SpecProcess == InitProcess /\ [][NextProcess]_vars

---------------------------------------------------------------------------
(* Inputs and calls of HeadingOnlyPDFExtractor.merge_nearby_blocks *)

\* most blocks on a page
MaxMergeLen == 3

\* a block as extract_text_blocks builds it, size in tenths of a point
LineBlock(text, size, is_bold, x0, y0, x1, y1) ==
    [text |-> text, size |-> size,
     font |-> IF is_bold THEN "Helvetica-Bold" ELSE "Helvetica",
     is_bold |-> is_bold, page |-> 1, bbox |-> <<x0, y0, x1, y1>>,
     char_count |-> Cardinality({i \in 1..Len(text) : text[i] # " "})]

\* blocks of two lines that overlap, from top to bottom and left to right.
\* Behind the first come a block that begins before its end, a bold one 5
\* behind, a larger one (ratio 1.21), one 21 behind; behind the bold one come
\* a text of 17 characters, a text of 15, a bold one of size 10.8, one of
\* size 9.0 behind that; on the lower line a block whose centre is 3.5 lower
\* and one whose centre is 3 lower, of size 12.0, 20 behind the bold one
MergeLine ==
    <<LineBlock(<<"w", "e", " ", "n", "o", "t", "e">>, 100, FALSE, 50, 200, 100, 210),
      LineBlock(<<"o", "v", "e", "r">>, 100, FALSE, 95, 200, 130, 210),
      LineBlock(<<"I", "m", "p", "o", "r", "t", "a", "n", "t">>, 100, TRUE, 105, 200, 160, 210),
      LineBlock(<<"b", "i", "g">>, 121, FALSE, 105, 200, 130, 210),
      LineBlock(<<"f", "a", "r">>, 100, FALSE, 121, 200, 150, 210),
      LineBlock(<<"o", "f", " ", "t", "h", "e", " ", "l", "o", "n", "g", " ", "t", "e", "x", "t", ".">>, 100, FALSE, 160, 200, 260, 210),
      LineBlock(<<"e", "x", "a", "c", "t", "l", "y", " ", "f", "i", "f", "t", "e", "e", "n">>, 100, FALSE, 160, 200, 250, 210),
      LineBlock(<<"T", "i", "t", "l", "e">>, 108, TRUE, 161, 200, 200, 210),
      LineBlock(<<"t", "a", "i", "l">>, 90, TRUE, 200, 200, 230, 210),
      LineBlock(<<"l", "o", "w">>, 100, FALSE, 105, 203, 130, 214),
      LineBlock(<<"p", "o", "i", "n", "t", "s">>, 120, FALSE, 180, 203, 220, 213)>>

InitMerge ==
    /\ call = "none"
    /\ \E chosen \in SUBSET (1..Len(MergeLine)) :
           /\ Cardinality(chosen) <= MaxMergeLen
           /\ args = [fn |-> "merge_nearby_blocks",
                      blocks |-> Seq0([k \in 1..Cardinality(chosen) |->
                                          MergeLine[Ascending(chosen)[k]]],
                                      Cardinality(chosen))]
    /\ result = <<>>
    /\ PipeIdle

CallMergeNearbyBlocks ==
    /\ call = "none"
    /\ args.fn = "merge_nearby_blocks"
    /\ call' = "merge_nearby_blocks"
    /\ result' = MergeNearbyBlocks(args.blocks)
    /\ UNCHANGED <<args, pipeVars>>

NextMerge == CallMergeNearbyBlocks

SpecMerge == InitMerge /\ [][NextMerge]_vars

---------------------------------------------------------------------------
(* The run of process_documents *)

\* most documents named in input.json
MaxDocs == 3

InputDir == <<"i", "n", "p", "u", "t">>

Heading(text, page) ==
    [level |-> "H1", text |-> text, page |-> page, confidence |-> 10, size |-> 14,
     font |-> "Helvetica", is_bold |-> FALSE, word_count |-> 1]

\* the files of the documents: two of four sections, one of six, one without
\* headings, and one that cannot be opened
FileNames == <<<<"a", ".", "p", "d", "f">>, <<"b", ".", "p", "d", "f">>, <<"m", ".", "p", "d", "f">>, <<"e", ".", "P", "D", "F">>, <<"u", ".", "p", "d", "f">>>>

ContentOfFile(filename) ==
    CASE filename = <<"a", ".", "p", "d", "f">> ->
           [readable |-> TRUE,
            outline |-> <<Heading(<<"R", "e", "v", "e", "n", "u", "e">>, 1), Heading(<<"M", "a", "r", "k", "e", "t">>, 1),
                          Heading(<<"R", "i", "s", "k">>, 2), Heading(<<"O", "u", "t", "l", "o", "o", "k">>, 2)>>,
            pages |-> <<<<"R", "e", "v", "e", "n", "u", "e", " ", "g", "r", "e", "w", " ", "5", " ", "M", "a", "r", "k", "e", "t", " ", "s", "h", "a", "r", "e", " ", "u", "p">>,
                        <<"R", "i", "s", "k", " ", "i", "s", " ", "l", "o", "w", " ", "O", "u", "t", "l", "o", "o", "k", " ", "g", "o", "o", "d">>>>]
      [] filename = <<"b", ".", "p", "d", "f">> ->
           [readable |-> TRUE,
            outline |-> <<Heading(<<"M", "e", "t", "h", "o", "d", "s">>, 1), Heading(<<"R", "e", "s", "u", "l", "t", "s">>, 1),
                          Heading(<<"D", "a", "t", "a">>, 1), Heading(<<"S", "u", "m", "m", "a", "r", "y">>, 1)>>,
            pages |-> <<<<"M", "e", "t", "h", "o", "d", "s", " ", "x", " ", "R", "e", "s", "u", "l", "t", "s", " ", "y", " ", "D", "a", "t", "a", " ", "z", " ", "S", "u", "m", "m", "a", "r", "y", " ", "w">>>>]
      [] filename = <<"m", ".", "p", "d", "f">> ->
           [readable |-> TRUE,
            outline |-> <<Heading(<<"O", "n", "e">>, 1), Heading(<<"T", "w", "o">>, 1), Heading(<<"T", "h", "r", "e", "e">>, 1),
                          Heading(<<"F", "o", "u", "r">>, 1), Heading(<<"F", "i", "v", "e">>, 1), Heading(<<"S", "i", "x">>, 1)>>,
            pages |-> <<<<"O", "n", "e", " ", "a", " ", "T", "w", "o", " ", "b", " ", "T", "h", "r", "e", "e", " ", "c", " ", "F", "o", "u", "r", " ", "d", " ", "F", "i", "v", "e", " ", "e", " ", "S", "i", "x", " ", "f">>>>]
      [] filename = <<"e", ".", "P", "D", "F">> ->
           [readable |-> TRUE, outline |-> <<>>, pages |-> <<<<"p", "l", "a", "i", "n", " ", "t", "e", "x", "t">>>>]
      [] OTHER ->
           [readable |-> FALSE, outline |-> <<>>, pages |-> <<>>]

\* the PDF at a path of the input directory
PdfOf(input_dir, filename) ==
    [path |-> PathJoin(input_dir, filename)] @@ ContentOfFile(filename)

\* directory listings: all files, the same in another order, the file that
\* cannot be opened alone, no PDF at all
FullListing == FileNames \o <<<<"i", "n", "p", "u", "t", ".", "j", "s", "o", "n">>>>

Listings ==
    {FullListing,
     <<<<"i", "n", "p", "u", "t", ".", "j", "s", "o", "n">>, <<"u", ".", "p", "d", "f">>, <<"e", ".", "P", "D", "F">>, <<"m", ".", "p", "d", "f">>, <<"b", ".", "p", "d", "f">>, <<"a", ".", "p", "d", "f">>>>,
     <<<<"u", ".", "p", "d", "f">>>>,
     <<<<"n", "o", "t", "e", "s", ".", "t", "x", "t">>>>}

\* the names an input.json lists: files of the directory and one that is not there
ManifestNames == {<<"a", ".", "p", "d", "f">>, <<"b", ".", "p", "d", "f">>, <<"m", ".", "p", "d", "f">>, <<"u", ".", "p", "d", "f">>, <<"x", ".", "p", "d", "f">>}

ManifestOf(status, documents) ==
    [status |-> status, documents |-> documents,
     persona |-> <<"I", "n", "v", "e", "s", "t", "m", "e", "n", "t", " ", "A", "n", "a", "l", "y", "s", "t">>, job_to_be_done |-> <<"A", "n", "a", "l", "y", "z", "e", " ", "r", "e", "v", "e", "n", "u", "e", " ", "t", "r", "e", "n", "d", "s">>]

RunOf(exists, listing, manifest, given) ==
    [fn |-> "process_documents",
     input_dir |-> InputDir,
     input_dir_exists |-> exists,
     listing |-> listing,
     manifest |-> manifest,
     persona |-> IF given THEN <<<<"S", "t", "u", "d", "e", "n", "t">>>> ELSE <<>>,
     job_to_be_done |-> IF given THEN <<<<"e", "x", "a", "m", " ", "s", "t", "u", "d", "y">>>> ELSE <<>>,
     ml |-> [status |-> "unavailable"]]

\* runs with an input.json that loads, in the full directory or beside the
\* one file that cannot be opened
InitManifestRun ==
    \E n \in 0..MaxDocs : \E documents \in [1..n -> ManifestNames] :
    \E listing \in {FullListing, <<<<"u", ".", "p", "d", "f">>>>} : \E given \in BOOLEAN :
        args = RunOf(TRUE, listing, ManifestOf("ok", documents), given)

\* runs without a usable input.json, and the run without input directory
InitScanRun ==
    \/ \E status \in {"missing", "invalid"} : \E listing \in Listings :
       \E given \in BOOLEAN :
           args = RunOf(TRUE, listing, ManifestOf(status, <<>>), given)
    \/ args = RunOf(FALSE, <<>>, ManifestOf("missing", <<>>), FALSE)

Init ==
    /\ call = "process_documents"
    /\ (InitManifestRun \/ InitScanRun)
    /\ result = <<>>
    /\ pc = "start"
    /\ persona = args.persona
    /\ job_to_be_done = args.job_to_be_done
    /\ pdf_files = <<>>
    /\ doc_idx = 0
    /\ all_sections = <<>>
    /\ failed_docs = {}
    /\ ranked_sections = <<>>
    /\ filtered_sections = <<>>
    /\ balanced_sections = <<>>
    /\ sub_section_analysis = <<>>
    /\ global_stats = <<>>

\* the run ends with an exception
Raise(error) ==
    /\ pc' = "failed"
    /\ result' = [error |-> error]

\* input validation, configuration and the list of existing files
LoadInputs ==
    /\ pc = "start"
    /\ IF InputError(args) # "none"
       THEN /\ Raise(InputError(args))
            /\ UNCHANGED <<persona, job_to_be_done, pdf_files>>
       ELSE /\ pc' = "extract"
            /\ persona' = Resolved(args.persona, args.manifest, "persona")
            /\ job_to_be_done' = Resolved(args.job_to_be_done, args.manifest,
                                          "job_to_be_done")
            /\ pdf_files' = ExistingFiles(args.listing,
                                          PdfFilenames(args.listing, args.manifest))
            /\ UNCHANGED result
    /\ UNCHANGED <<call, args, doc_idx, all_sections, failed_docs, ranked_sections,
                   filtered_sections, balanced_sections, sub_section_analysis,
                   global_stats>>

\* one round of the loop of step 1: the next document is extracted, or its
\* exception is caught
ExtractDocument ==
    /\ pc = "extract"
    /\ doc_idx < Len(pdf_files)
    /\ LET pdf == PdfOf(args.input_dir, pdf_files[doc_idx + 1])
       IN  /\ all_sections' = SectionsAfter(all_sections, pdf)
           /\ failed_docs' = IF pdf.readable THEN failed_docs
                             ELSE failed_docs \cup {doc_idx + 1}
    /\ doc_idx' = doc_idx + 1
    /\ UNCHANGED <<call, args, result, pc, persona, job_to_be_done, pdf_files,
                   ranked_sections, filtered_sections, balanced_sections,
                   sub_section_analysis,
                   global_stats>>

\* the test behind the loop: no section at all is fatal
CheckSections ==
    /\ pc = "extract"
    /\ doc_idx = Len(pdf_files)
    /\ IF NoSections(all_sections) THEN Raise("ValueError")
       ELSE pc' = "rank" /\ UNCHANGED result
    /\ UNCHANGED <<call, args, persona, job_to_be_done, pdf_files, doc_idx,
                   all_sections, failed_docs, ranked_sections, filtered_sections,
                   balanced_sections, sub_section_analysis,
                   global_stats>>

\* step 2: rank_sections; text.lower() raises for a persona or job that is None
RankStep ==
    /\ pc = "rank"
    /\ IF persona = <<>> \/ job_to_be_done = <<>>
       THEN Raise("AttributeError") /\ UNCHANGED ranked_sections
       ELSE /\ ranked_sections' = RankSections(all_sections, persona[1],
                                               job_to_be_done[1], args.ml)
            /\ pc' = "filter"
            /\ UNCHANGED result
    /\ UNCHANGED <<call, args, persona, job_to_be_done, pdf_files, doc_idx,
                   all_sections, failed_docs, filtered_sections, balanced_sections,
                   sub_section_analysis,
                   global_stats>>

\* step 3, first half: filter_and_deduplicate_sections
FilterStep ==
    /\ pc = "filter"
    /\ filtered_sections' = FilterAndDeduplicateSections(ranked_sections)
    /\ pc' = "balance"
    /\ UNCHANGED <<call, args, result, persona, job_to_be_done, pdf_files, doc_idx,
                   all_sections, failed_docs, ranked_sections, balanced_sections,
                   sub_section_analysis,
                   global_stats>>

\* step 3, second half: balance_section_distribution
BalanceStep ==
    /\ pc = "balance"
    /\ balanced_sections' = BalanceSectionDistribution(filtered_sections, MaxPerDocument)
    /\ pc' = "analyze"
    /\ UNCHANGED <<call, args, result, persona, job_to_be_done, pdf_files, doc_idx,
                   all_sections, failed_docs, ranked_sections, filtered_sections,
                   sub_section_analysis,
                   global_stats>>

\* step 4: create_sub_section_analysis
AnalyzeStep ==
    /\ pc = "analyze"
    /\ sub_section_analysis' = CreateSubSectionAnalysis(balanced_sections, MaxSubSections)
    /\ pc' = "format"
    /\ UNCHANGED <<call, args, result, persona, job_to_be_done, pdf_files, doc_idx,
                   all_sections, failed_docs, ranked_sections, filtered_sections,
                   balanced_sections,
                   global_stats>>

\* step 5: format_output, and the return
FormatStep ==
    /\ pc = "format"
    /\ result' = FormatOutput(pdf_files, persona[1], job_to_be_done[1],
                              balanced_sections, sub_section_analysis)
    /\ pc' = "done"
    /\ UNCHANGED <<call, args, persona, job_to_be_done, pdf_files, doc_idx,
                   all_sections, failed_docs, ranked_sections, filtered_sections,
                   balanced_sections, sub_section_analysis,
                   global_stats>>

Next ==
    \/ LoadInputs
    \/ ExtractDocument
    \/ CheckSections
    \/ RankStep
    \/ FilterStep
    \/ BalanceStep
    \/ AnalyzeStep
    \/ FormatStep

Spec == Init /\ [][Next]_vars


---------------------------------------------------------------------------
(* Properties *)

LowerTitle(section) == Lower(Get(section, "section_title", <<>>))

\* the titles of a pair are apart: word overlap at most 0.7, neither inside the other
TitlesApart(t1, t2) ==
    LET words1 == ToSet(Split(t1))
        words2 == ToSet(Split(t2))
    IN  /\ 10 * Cardinality(words1 \cap words2) <= 7 * Cardinality(words1 \cup words2)
        /\ ~Contains(t1, t2)
        /\ ~Contains(t2, t1)

\* C5 as stated: every pair of distinct sections kept by
\* filter_and_deduplicate_sections, empty and missing titles included, has title
\* word overlap at most 0.7 and neither lowercased title inside the other.
C5_AllKeptPairsApart ==
    call = "filter_and_deduplicate_sections" =>
        \A i, j \in 1..Len(result) :
            i < j => TitlesApart(LowerTitle(result[i]), LowerTitle(result[j]))

\* C5 amended: every pair of distinct kept sections whose titles both hold a
\* non-space character has title word overlap at most 0.7 and neither lowercased
\* title inside the other.
C5_NonBlankKeptPairsApart ==
    call = "filter_and_deduplicate_sections" =>
        \A i, j \in 1..Len(result) :
            (/\ i < j
             /\ Strip(LowerTitle(result[i])) # <<>>
             /\ Strip(LowerTitle(result[j])) # <<>>)
                => TitlesApart(LowerTitle(result[i]), LowerTitle(result[j]))

\* C5 witness: a list with two similar non-blank titles was filtered, one was
\* dropped and two sections with non-blank titles were kept
C5_Witness ==
    /\ call = "filter_and_deduplicate_sections"
    /\ Len(result) < Len(args.sections)
    /\ \E i, j \in 1..Len(result) :
           /\ i < j
           /\ Strip(LowerTitle(result[i])) # <<>>
           /\ Strip(LowerTitle(result[j])) # <<>>
    /\ \E i, j \in 1..Len(args.sections) :
           /\ i < j
           /\ Strip(LowerTitle(args.sections[i])) # <<>>
           /\ ~TitlesApart(LowerTitle(args.sections[i]), LowerTitle(args.sections[j]))

IndicesOfDoc(sections, d) ==
    {i \in 1..Len(sections) : Get(sections[i], "document", "unknown") = d}

\* C6: the list returned by balance_section_distribution holds at most 5 sections
\* of each document, and they are that document's sections with the highest
\* relevance scores: no section left out scores higher than one that was kept,
\* and a section is left out only when 5 were kept.
C6_BalanceKeepsTopFive ==
    call = "balance_section_distribution" =>
        \A d \in {"d1", "d2", "unknown"} :
            LET kept == IndicesOfDoc(result, d)
                given == IndicesOfDoc(args.sections, d)
                keptPages == {result[i].page_number : i \in kept}
                dropped == {i \in given : args.sections[i].page_number \notin keptPages}
            IN  /\ Cardinality(kept) <= 5
                /\ Cardinality(keptPages) = Cardinality(kept)
                /\ keptPages \subseteq {args.sections[i].page_number : i \in given}
                /\ dropped # {} => Cardinality(kept) = 5
                /\ \A i \in dropped : \A k \in kept :
                       RatLeq(ScoreOf(args.sections[i]), ScoreOf(result[k]))

\* C6 witness: a document with more than 5 sections, a high-scoring one after a
\* low-scoring one, was balanced
C6_Witness ==
    /\ call = "balance_section_distribution"
    /\ \E d \in {"d1", "d2"} :
           /\ Cardinality(IndicesOfDoc(args.sections, d)) > 5
           /\ Cardinality(IndicesOfDoc(result, d)) = 5
           /\ \E i, j \in IndicesOfDoc(args.sections, d) :
                  /\ i < j
                  /\ RatLess(ScoreOf(args.sections[i]), ScoreOf(args.sections[j]))
                  /\ j > 5

\* the scorer state rank_sections works with
SelfOfArgs == AnalyzePersonaAndJob(args.persona, args.job_to_be_done, args.ml)

\* C7: every score computed by score_section_relevance lies in [0, 1], whichever
\* boosts apply.
C7_ScoreWithinUnitInterval ==
    call = "rank_sections" =>
        \A i \in 1..Len(result) :
            /\ RatLeq(RatZero, result[i].relevance_score)
            /\ RatLeq(result[i].relevance_score, RatOne)
            /\ result[i].relevance_score.num >= 0
            /\ result[i].relevance_score.den > 0

\* C7 witness: a section to which all three boosts apply and whose boosted sum
\* exceeds 1 was scored
C7_Witness ==
    /\ call = "rank_sections"
    /\ \E i \in 1..Len(args.sections) :
           /\ \A b \in 1..3 :
                  BoostApplies(SelfOfArgs, Get(args.sections[i], "section_title", <<>>), b)
           /\ RatLess(RatOne, BoostedScore(SelfOfArgs, args.sections[i]))

\* result[i] is the input section k with a score and a rank added
IsScoredCopy(scored, section) ==
    /\ DOMAIN scored = (DOMAIN section) \cup {"relevance_score", "importance_rank"}
    /\ \A f \in DOMAIN section : scored[f] = section[f]

\* C8: rank_sections returns all input sections sorted by score descending, with
\* importance_rank the 1-based position, and sections of equal score in their
\* input order.
C8_RankSortedDenseStable ==
    call = "rank_sections" =>
        LET n == Len(args.sections)
        IN  /\ Len(result) = n
            /\ \A i \in 1..n : result[i].importance_rank = i
            /\ \A i, j \in 1..n :
                   i < j => RatLeq(result[j].relevance_score, result[i].relevance_score)
            /\ \E perm \in [1..n -> 1..n] :
                   /\ \A i, j \in 1..n : i # j => perm[i] # perm[j]
                   /\ \A i \in 1..n : IsScoredCopy(result[i], args.sections[perm[i]])
                   /\ \A i, j \in 1..n :
                          (i < j /\ result[i].relevance_score = result[j].relevance_score)
                              => perm[i] <= perm[j] \/ args.sections[perm[i]] = args.sections[perm[j]]

\* C8 witness: three sections were ranked, the best one came last in the input,
\* and two different sections of equal score follow it in their input order
C8_Witness ==
    /\ call = "rank_sections"
    /\ Len(result) = 3
    /\ IsScoredCopy(result[1], args.sections[3])
    /\ RatLess(result[2].relevance_score, result[1].relevance_score)
    /\ result[2].relevance_score = result[3].relevance_score
    /\ args.sections[1] # args.sections[2]
    /\ IsScoredCopy(result[2], args.sections[1])
    /\ IsScoredCopy(result[3], args.sections[2])

\* C23: the list balance_section_distribution returns is sorted by relevance
\* score descending across the documents, and the importance_rank of its i-th
\* section is i, whatever the ranks on entry were.
C23_BalanceSortedRanksDense ==
    call = "balance_section_distribution" =>
        /\ \A i \in 1..Len(result) : result[i].importance_rank = i
        /\ \A i, j \in 1..Len(result) :
               i < j => RatLeq(ScoreOf(result[j]), ScoreOf(result[i]))

\* C23 witness: sections of two documents came in with ranks 2, 4, 6, ..., the
\* first given scores lower than a later one of the other document, and the
\* list returned starts with a section that was not first
C23_Witness ==
    /\ call = "balance_section_distribution"
    /\ Len(args.sections) >= 3
    /\ \A i \in 1..Len(args.sections) : args.sections[i].importance_rank = 2 * i
    /\ Cardinality({args.sections[i].document : i \in 1..Len(args.sections)}) = 2
    /\ Len(result) = Len(args.sections)
    /\ result[1].page_number # 1
    /\ result[1].document # args.sections[1].document
    /\ RatLess(ScoreOf(result[Len(result)]), ScoreOf(result[1]))

\* the boosts that apply to a section: a word of the job and a word of the
\* title from the lists of the boost
BoostsOf(section) ==
    LET job == Lower(args.job_to_be_done)
        title == Lower(Get(section, "section_title", <<>>))
        Has(text, words) == \E w \in words : Contains(text, w)
    IN  {b \in 1..3 :
            CASE b = 1 -> /\ Has(job, {<<"l", "i", "t", "e", "r", "a", "t", "u", "r", "e">>, <<"r", "e", "v", "i", "e", "w">>, <<"m", "e", "t", "h", "o", "d", "o", "l", "o", "g", "y">>})
                          /\ Has(title, {<<"m", "e", "t", "h", "o", "d">>, <<"l", "i", "t", "e", "r", "a", "t", "u", "r", "e">>, <<"r", "e", "v", "i", "e", "w">>, <<"a", "p", "p", "r", "o", "a", "c", "h">>})
              [] b = 2 -> /\ Has(job, {<<"e", "x", "a", "m">>, <<"s", "t", "u", "d", "y">>, <<"c", "o", "n", "c", "e", "p", "t">>})
                          /\ Has(title, {<<"c", "o", "n", "c", "e", "p", "t">>, <<"t", "h", "e", "o", "r", "y">>, <<"p", "r", "i", "n", "c", "i", "p", "l", "e">>, <<"k", "e", "y">>})
              [] b = 3 -> /\ Has(job, {<<"f", "i", "n", "a", "n", "c", "i", "a", "l">>, <<"r", "e", "v", "e", "n", "u", "e">>, <<"a", "n", "a", "l", "y", "s", "i", "s">>})
                          /\ Has(title, {<<"f", "i", "n", "a", "n", "c", "i", "a", "l">>, <<"r", "e", "v", "e", "n", "u", "e">>, <<"a", "n", "a", "l", "y", "s", "i", "s">>,
                                         <<"p", "e", "r", "f", "o", "r", "m", "a", "n", "c", "e">>})}

\* 1.2 to the power k, for k up to 3
BoostFactor(k) ==
    CASE k = 0 -> Rat(1, 1) [] k = 1 -> Rat(12, 10) [] k = 2 -> Rat(144, 100)
      [] k = 3 -> Rat(1728, 1000)

\* C24: the score of a section is the weighted sum of its three components
\* times 1.2 to the power of the number of boosts that apply to it, cut to 1.0
\* after that product and not before.
C24_BoostsCompoundThenClamp ==
    call = "rank_sections" =>
        \E self \in {SelfOfArgs} :
            \A i \in 1..Len(result) :
                \E boosted \in {RatMul(WeightedSum(self, result[i]),
                                       BoostFactor(Cardinality(BoostsOf(result[i]))))} :
                    result[i].relevance_score
                        = IF RatLess(RatOne, boosted) THEN RatOne ELSE boosted

\* C24 witness: two boosts or more apply to a section whose weighted sum
\* boosted once stays below 1; boosted by all of them it passes 1 and the
\* score is 1
C24_Witness ==
    /\ call = "rank_sections"
    /\ \E i \in 1..Len(result) :
           LET sum == WeightedSum(SelfOfArgs, result[i])
               k == Cardinality(BoostsOf(result[i]))
           IN  /\ k >= 2
               /\ RatLess(RatMul(sum, BoostFactor(1)), RatOne)
               /\ RatLess(RatOne, RatMul(sum, BoostFactor(k)))
               /\ result[i].relevance_score = RatOne

\* the title and the content words the filter works with
FilterTitle(section) == Strip(Lower(Get(section, "section_title", <<>>)))

FilterWords(section) == WordRuns(Lower(Get(section, "content", <<>>)))

\* section i has a title too similar to the title of an earlier section of K
TitleClash(sections, K, i) ==
    \E j \in K : j < i /\ TitlesTooSimilar(FilterTitle(sections[i]), FilterTitle(sections[j]))

\* section i has more than 10 content words and the content hash of an
\* earlier section of K with more than 10
ContentClash(sections, K, i) ==
    /\ Len(FilterWords(sections[i])) > 10
    /\ \E j \in K :
           /\ j < i
           /\ Len(FilterWords(sections[j])) > 10
           /\ ContentHash(FilterWords(sections[j])) = ContentHash(FilterWords(sections[i]))

SortedByScore(sections) ==
    \A i, j \in 1..Len(sections) :
        i < j => RatLeq(ScoreOf(sections[j]), ScoreOf(sections[i]))

\* C29: filter_and_deduplicate_sections returns the sections at a set K of
\* places of its input, in input order and as they were given, so a list
\* sorted by score descending stays sorted; a section is in K exactly when
\* neither its title nor its content clashes with an earlier section of K:
\* a section dropped for its title or for its content counts for nothing
\* later, neither its title nor its content hash.
C29_SubsequenceDecidedByKept ==
    call = "filter_and_deduplicate_sections" =>
        /\ \E K \in SUBSET (1..Len(args.sections)) :
               /\ result = Seq0([k \in 1..Cardinality(K) |->
                                    args.sections[Ascending(K)[k]]], Cardinality(K))
               /\ \A i \in 1..Len(args.sections) :
                      i \in K <=> (/\ ~TitleClash(args.sections, K, i)
                                   /\ ~ContentClash(args.sections, K, i))
        /\ SortedByScore(args.sections) => SortedByScore(result)

\* C29 witness: of three ranked sections with falling scores the second has
\* the content of the first and was dropped, and the third, which has the
\* title of the second, was kept
C29_Witness ==
    /\ call = "filter_and_deduplicate_sections"
    /\ Len(args.sections) = 3
    /\ RatLess(ScoreOf(args.sections[2]), ScoreOf(args.sections[1]))
    /\ RatLess(ScoreOf(args.sections[3]), ScoreOf(args.sections[2]))
    /\ ContentClash(args.sections, {1}, 2)
    /\ ~TitleClash(args.sections, {1}, 2)
    /\ TitleClash(args.sections, {2}, 3)
    /\ result = <<args.sections[1], args.sections[3]>>

---------------------------------------------------------------------------
(* Properties of extract_sections_with_content *)

\* C1: for a document whose outline is empty, extract_sections_with_content
\* returns exactly one section, titled "Full Document", with confidence 1.0.
C1_NoHeadingsOneFullDocument ==
    (call = "extract_sections_with_content" /\ args.pdf.outline = <<>>) =>
        /\ Len(result) = 1
        /\ result[1].section_title = <<"F", "u", "l", "l", " ", "D", "o", "c", "u", "m", "e", "n", "t">>
        /\ result[1].confidence = 1

\* C1 witness: a two-page document without headings was extracted, and the one
\* section holds text
C1_Witness ==
    /\ call = "extract_sections_with_content"
    /\ args.pdf.outline = <<>>
    /\ Len(args.pdf.pages) = 2
    /\ Len(result) = 1
    /\ result[1].content # <<>>

\* the sorted headings of the extracted document whose cleaned content is not empty
HeadingsWithContent ==
    LET sorted_headings == SortedHeadings(args.pdf.outline)
    IN  {i \in 1..Len(sorted_headings) :
            ExtractSectionContent(args.pdf.pages, sorted_headings[i],
                IF i < Len(sorted_headings) THEN <<sorted_headings[i + 1]>> ELSE <<>>)
            # <<>>}

\* C2 as stated: for a document with at least one heading, the number of
\* sections equals the number of headings, whatever the extracted content is.
C2_OneSectionPerHeading ==
    (call = "extract_sections_with_content" /\ args.pdf.outline # <<>>) =>
        Len(result) = Len(args.pdf.outline)

\* C2: for a document with at least one heading, the number of sections equals
\* the number of headings whose cleaned extracted content is not empty, and is
\* one (the Full Document section) when every heading's content is empty.
C2_OneSectionPerHeadingWithContent ==
    (call = "extract_sections_with_content" /\ args.pdf.outline # <<>>) =>
        Len(result) = IF HeadingsWithContent = {} THEN 1
                      ELSE Cardinality(HeadingsWithContent)

\* C2 witness: of two headings one has content and the other has none, and one
\* section, the one of the heading with content, was returned
C2_Witness ==
    /\ call = "extract_sections_with_content"
    /\ Len(args.pdf.outline) = 2
    /\ Cardinality(HeadingsWithContent) = 1
    /\ Len(result) = 1
    /\ result[1].section_title # <<"F", "u", "l", "l", " ", "D", "o", "c", "u", "m", "e", "n", "t">>

\* C3: for a document with at least one heading, the page numbers of the
\* returned sections do not decrease along the list.
C3_PageNumbersNonDecreasing ==
    (call = "extract_sections_with_content" /\ args.pdf.outline # <<>>) =>
        \A i, j \in 1..Len(result) :
            i < j => result[i].page_number <= result[j].page_number

\* C3 witness: the outline lists a heading of page 2 before a heading of page 1,
\* and both became sections
C3_Witness ==
    /\ call = "extract_sections_with_content"
    /\ Len(args.pdf.outline) = 2
    /\ args.pdf.outline[1].page = 2
    /\ args.pdf.outline[2].page = 1
    /\ Len(result) = 2
    /\ result[1].page_number = 1
    /\ result[2].page_number = 2

\* the section _extract_full_document_as_section stands for the document
IsFullDocumentFallback(section) ==
    /\ section.section_title = <<"F", "u", "l", "l", " ", "D", "o", "c", "u", "m", "e", "n", "t">>
    /\ section.page_number = 1
    /\ section.start_page = 1
    /\ section.heading_level = "H1"

\* C30: extract_sections_with_content returns at least one section, and each
\* section has content or is the Full Document section; the sections are
\* those of the headings whose cleaned content is not empty, in the order
\* of the sorted headings, and the Full Document section alone when no
\* heading has content.
C30_SomeSectionEachWithContent ==
    call = "extract_sections_with_content" =>
        LET sorted_headings == SortedHeadings(args.pdf.outline)
            with_content == Ascending(HeadingsWithContent)
        IN  /\ Len(result) >= 1
            /\ \A i \in 1..Len(result) :
                   result[i].content # <<>> \/ IsFullDocumentFallback(result[i])
            /\ IF with_content = <<>>
               THEN Len(result) = 1 /\ IsFullDocumentFallback(result[1])
               ELSE /\ Len(result) = Len(with_content)
                    /\ \A k \in 1..Len(result) :
                           /\ result[k].section_title = sorted_headings[with_content[k]].text
                           /\ result[k].page_number = sorted_headings[with_content[k]].page
                           /\ result[k].content # <<>>

\* C30 witness: a document with headings of which none has content came back
\* as the Full Document section, and that section has content
C30_Witness ==
    /\ call = "extract_sections_with_content"
    /\ Len(args.pdf.outline) >= 2
    /\ HeadingsWithContent = {}
    /\ Len(result) = 1
    /\ IsFullDocumentFallback(result[1])
    /\ result[1].content # <<>>

---------------------------------------------------------------------------
(* Properties of strict_heading_detection *)

\* the outline entry made of a block and its confidence, whatever its level
IsEntryOf(entry, block) ==
    /\ entry.text = block.text
    /\ entry.page = block.page
    /\ entry.size = block.size
    /\ entry.font = block.font
    /\ entry.is_bold = block.is_bold
    /\ entry.word_count = block.word_count
    /\ entry.confidence = Confidence(block)

\* C4: every entry of the outline strict_heading_detection returns has a
\* confidence of at least 7 and is made of a given block whose computed
\* confidence is that value; no block of confidence below 7 is in the outline.
C4_OutlineConfidenceAtLeastSeven ==
    call = "strict_heading_detection" =>
        \A k \in 1..Len(result.outline) :
            /\ result.outline[k].confidence >= 7
            /\ \E i \in 1..Len(args.blocks) :
                   /\ IsEntryOf(result.outline[k], args.blocks[i])
                   /\ Confidence(args.blocks[i]) >= 7

\* C4 witness: of three blocks one has confidence exactly 7, one has a lower
\* confidence and passes the final validation, and the outline holds the
\* first and another heading but not the low one
C4_Witness ==
    /\ call = "strict_heading_detection"
    /\ Len(args.blocks) = 3
    /\ \E i, j \in 1..3 :
           /\ Confidence(args.blocks[i]) = 7
           /\ Confidence(args.blocks[j]) < 7
           /\ FinalHeadingValidation(args.blocks[j])
           /\ \E k \in 1..Len(result.outline) : IsEntryOf(result.outline[k], args.blocks[i])
           /\ \A k \in 1..Len(result.outline) :
                  result.outline[k].text # args.blocks[j].text
    /\ Len(result.outline) = 2

OutlineReturned ==
    IF call = "assign_heading_levels" THEN result
    ELSE IF call = "strict_heading_detection" THEN result.outline
    ELSE <<>>

\* the level of the n-th largest size
LevelOfTier(n) == IF n = 1 THEN "H1" ELSE IF n = 2 THEN "H2" ELSE "H3"

\* C16: the outline has one entry per surviving candidate, and the level of an
\* entry is H1 when no candidate has a larger size, H2 when the candidates
\* larger than it have one size, and H3 when they have two sizes or more; so
\* entries of the largest size have level H1 and entries of equal size have
\* equal levels.
C16_LevelsBySizeTier ==
    LET outline == OutlineReturned
        sizes == {outline[k].size : k \in 1..Len(outline)}
        Tier(size) == 1 + Cardinality({s \in sizes : s > size})
    IN  /\ call = "assign_heading_levels" =>
               /\ Len(outline) = Len(args.candidates)
               /\ sizes = {args.candidates[i].block.size : i \in 1..Len(args.candidates)}
        /\ \A k \in 1..Len(outline) : outline[k].level = LevelOfTier(Tier(outline[k].size))
        /\ \A k, m \in 1..Len(outline) :
               outline[k].size = outline[m].size => outline[k].level = outline[m].level

\* C16 witness: four candidates of four sizes, the smallest at level H3 behind
\* another H3
C16_Witness ==
    /\ call = "assign_heading_levels"
    /\ Len(result) = 4
    /\ Cardinality({result[k].size : k \in 1..4}) = 4
    /\ Cardinality({k \in 1..4 : result[k].level = "H3"}) = 2
    /\ Cardinality({k \in 1..4 : result[k].level = "H1"}) = 1

\* a comes no later than b by (page, y_position)
NotBehind(a, b) == a.page < b.page \/ (a.page = b.page /\ a.y_position <= b.y_position)

\* C17: the outline assign_heading_levels returns holds every candidate once,
\* in ascending order of (page, y_position) whatever the order of confidence
\* the candidates came in; the title strict_heading_detection returns is the
\* text of the first entry of its outline, and the empty string when the
\* outline is empty, which is when no block is a candidate.
C17_OutlineInPageOrderTitleFirst ==
    /\ call = "assign_heading_levels" =>
           LET n == Len(args.candidates)
               From(k) == CHOOSE i \in 1..n : args.candidates[i].block.text = result[k].text
           IN  /\ Len(result) = n
               /\ \A k \in 1..n : \E i \in 1..n :
                      /\ args.candidates[i].block.text = result[k].text
                      /\ args.candidates[i].confidence = result[k].confidence
               /\ {From(k) : k \in 1..n} = 1..n
               /\ \A k \in 1..(n - 1) :
                      NotBehind(args.candidates[From(k)].block,
                                args.candidates[From(k + 1)].block)
    /\ call = "strict_heading_detection" =>
           /\ result.title = IF result.outline = <<>> THEN <<>> ELSE result.outline[1].text
           /\ result.outline = <<>> <=>
                  \A i \in 1..Len(args.blocks) : ~IsHeadingCandidate(args.blocks[i])
           /\ \A k \in 1..(Len(result.outline) - 1) : \E i, j \in 1..Len(args.blocks) :
                  /\ IsEntryOf(result.outline[k], args.blocks[i])
                  /\ IsEntryOf(result.outline[k + 1], args.blocks[j])
                  /\ NotBehind(args.blocks[i], args.blocks[j])

\* C17 witness: the heading of the lower confidence stands first in the outline
\* and gives the title
C17_Witness ==
    /\ call = "strict_heading_detection"
    /\ Len(result.outline) >= 2
    /\ result.outline[1].confidence < result.outline[2].confidence
    /\ result.title = result.outline[1].text
    /\ result.title # <<>>

\* trimmed and lowercased
Normalized(text) == Lower(Strip(text))

\* two normalized texts that deduplication takes for one heading: equal, of
\* lengths at most 2 apart with more than 0.8 of the longer equal place by
\* place, or one inside the other
SimilarTexts(s, t) ==
    LET shorter == IF Len(s) < Len(t) THEN Len(s) ELSE Len(t)
        longer == IF Len(s) < Len(t) THEN Len(t) ELSE Len(s)
        same == Cardinality({i \in 1..shorter : s[i] = t[i]})
    IN  \/ s = t
        \/ (longer - shorter <= 2 /\ 10 * same > 8 * longer)
        \/ \E i \in 1..(Len(t) - Len(s) + 1) : SubSeq(t, i, i + Len(s) - 1) = s
        \/ \E i \in 1..(Len(s) - Len(t) + 1) : SubSeq(s, i, i + Len(t) - 1) = t

SimilarCandidates(a, b) == SimilarTexts(Normalized(a.block.text), Normalized(b.block.text))

\* where the candidates of the result stand in the list given
KeptPlaces ==
    {i \in 1..Len(args.candidates) : \E k \in 1..Len(result) : result[k] = args.candidates[i]}

DuplicatesRemoved == call = "remove_duplicate_headings"

\* the result is the kept candidates in the order given, no two of them similar
KeptApartInOrder ==
    /\ Len(result) = Cardinality(KeptPlaces)
    /\ \A k, m \in 1..Len(result) :
           k < m => /\ ~SimilarCandidates(result[k], result[m])
                    /\ \E i, j \in KeptPlaces :
                           i < j /\ result[k] = args.candidates[i]
                                 /\ result[m] = args.candidates[j]

\* C22 as stated: a candidate is dropped only for a similar kept candidate
\* that comes no later in the document, by page and then vertical position.
C22_KeepsFirstInDocument ==
    DuplicatesRemoved =>
        /\ KeptApartInOrder
        /\ \A i \in (1..Len(args.candidates)) \ KeptPlaces : \E j \in KeptPlaces :
               /\ SimilarCandidates(args.candidates[i], args.candidates[j])
               /\ NotBehind(args.candidates[j].block, args.candidates[i].block)

\* C22: no two kept candidates are similar, and a candidate is dropped only
\* for a similar kept candidate that stands before it in the list given, which
\* is in the order of confidence descending, then size descending, then page,
\* then vertical position: of similar candidates the first in that order is
\* kept, not the first in the document.
C22_KeepsFirstByConfidence ==
    DuplicatesRemoved =>
        /\ KeptApartInOrder
        /\ \A i \in (1..Len(args.candidates)) \ KeptPlaces : \E j \in KeptPlaces :
               /\ j < i
               /\ SimilarCandidates(args.candidates[i], args.candidates[j])
        /\ \A i, j \in 1..Len(args.candidates) :
               i < j =>
                   LET a == args.candidates[i]
                       b == args.candidates[j]
                   IN  \/ a.confidence > b.confidence
                       \/ a.confidence = b.confidence /\ a.block.size > b.block.size
                       \/ a.confidence = b.confidence /\ a.block.size = b.block.size
                            /\ NotBehind(a.block, b.block)

\* C22 witness: of two headings of equal text the one of page 2 has the higher
\* confidence and is kept, the one of page 1 is dropped; a heading with a text
\* one letter longer than a kept one is dropped too
C22_Witness ==
    /\ DuplicatesRemoved
    /\ Len(args.candidates) = 4
    /\ Len(result) = 2
    /\ \E i \in 1..4 : \E k \in 1..2 :
           /\ i \notin KeptPlaces
           /\ Normalized(args.candidates[i].block.text) = Normalized(result[k].block.text)
           /\ args.candidates[i].block.page = 1
           /\ result[k].block.page = 2
           /\ result[k].confidence > args.candidates[i].confidence
    /\ \E i \in 1..4 : \E k \in 1..2 :
           /\ i \notin KeptPlaces
           /\ Len(Normalized(args.candidates[i].block.text))
                  = Len(Normalized(result[k].block.text)) + 1

---------------------------------------------------------------------------
(* Properties of the run of process_documents *)

\* C9: once create_sub_section_analysis has run in process_documents, the
\* sub-section analysis has at most 10 records, their importance_rank rises
\* strictly along the list, and the ranks are exactly 1..k for
\* k = min(10, number of balanced sections).
C9_SubSectionRanksOneToK ==
    pc \in {"format", "done"} =>
        LET k == IF Len(balanced_sections) < 10 THEN Len(balanced_sections) ELSE 10
        IN  /\ Len(sub_section_analysis) <= 10
            /\ Len(sub_section_analysis) = k
            /\ \A i, j \in 1..Len(sub_section_analysis) :
                   i < j => sub_section_analysis[i].importance_rank
                                < sub_section_analysis[j].importance_rank
            /\ {sub_section_analysis[i].importance_rank :
                    i \in 1..Len(sub_section_analysis)} = 1..k

\* C9 witness: a run ended with more than 10 balanced sections of three
\* documents and 10 sub-section records
C9_Witness ==
    /\ pc = "done"
    /\ Len(balanced_sections) > 10
    /\ Len(filtered_sections) > Len(balanced_sections)
    /\ Len(sub_section_analysis) = 10

\* the sections of the first n documents of the run, those of a document that
\* cannot be opened left out
RECURSIVE SectionsOfReadable(_)
SectionsOfReadable(n) ==
    IF n = 0 THEN <<>>
    ELSE LET pdf == PdfOf(args.input_dir, pdf_files[n])
         IN  SectionsOfReadable(n - 1) \o
                 (IF pdf.readable THEN ExtractSectionsWithContent(pdf) ELSE <<>>)

\* C10: a document whose extraction raises adds nothing to the accumulated
\* sections and leaves those of the earlier documents as they are, and the
\* loop goes on: the accumulated list is always the sections of the readable
\* documents attempted so far, and the loop is left only when every document
\* has been attempted.
C10_FailedDocumentAddsNothing ==
    pc # "idle" =>
        /\ doc_idx <= Len(pdf_files)
        /\ all_sections = SectionsOfReadable(doc_idx)
        /\ failed_docs = {i \in 1..doc_idx :
                             ~PdfOf(args.input_dir, pdf_files[i]).readable}
        /\ pc # "extract" => doc_idx = Len(pdf_files)

\* C10 witness: the second of three documents raised, and the run went on to
\* rank the sections of the first and the third
C10_Witness ==
    /\ pc = "done"
    /\ Len(pdf_files) = 3
    /\ failed_docs = {2}
    /\ \E i, j \in 1..Len(all_sections) :
           /\ i < j
           /\ all_sections[i].document = DocumentName(PathJoin(args.input_dir, pdf_files[1]))
           /\ all_sections[j].document = DocumentName(PathJoin(args.input_dir, pdf_files[3]))
           /\ all_sections[i].document # all_sections[j].document

\* the run ended with the given exception
RaisedError(error) == pc = "failed" /\ result = [error |-> error]

\* C11: the ValueError for "no sections" is raised exactly when the accumulated
\* list is empty after every existing document was attempted: when it is
\* raised every document was attempted, the list is empty and no ranking,
\* filtering, balancing, analysis or output exists; and a run that got past
\* the loop with an empty list did raise it.
C11_NoSectionsErrorIffEmptyAfterAll ==
    /\ RaisedError("ValueError") =>
           /\ pdf_files # <<>>
           /\ doc_idx = Len(pdf_files)
           /\ failed_docs = 1..Len(pdf_files)
           /\ all_sections = <<>>
           /\ ranked_sections = <<>>
           /\ filtered_sections = <<>>
           /\ balanced_sections = <<>>
           /\ sub_section_analysis = <<>>
    /\ (pc \in {"rank", "filter", "balance", "analyze", "format", "done"}
            \/ RaisedError("AttributeError")) =>
           all_sections # <<>>
    /\ (pc = "extract" /\ doc_idx < Len(pdf_files)) => result = <<>>

\* C11 witness: two documents were attempted, both raised, and the run ended
\* with the ValueError
C11_Witness ==
    /\ RaisedError("ValueError")
    /\ Len(pdf_files) = 2
    /\ failed_docs = {1, 2}

\* nothing of the run exists beyond the error: no document was attempted and
\* no list or output was made
NothingProcessed ==
    /\ pdf_files = <<>>
    /\ doc_idx = 0
    /\ failed_docs = {}
    /\ all_sections = <<>>
    /\ ranked_sections = <<>>
    /\ filtered_sections = <<>>
    /\ balanced_sections = <<>>
    /\ sub_section_analysis = <<>>

\* no entry of the directory listing has a name ending in .pdf, in any case
NoPdfInDirectory == \A i \in 1..Len(args.listing) : ~IsPdfName(args.listing[i])

\* input.json loaded and none of the files it names is in the directory
NoNamedFilePresent ==
    /\ ManifestLoads(args.manifest)
    /\ \A i \in 1..Len(args.manifest.documents) :
           args.manifest.documents[i] \notin ToSet(args.listing)

\* C12 as stated: a missing input directory, a missing or invalid input.json,
\* or no named file present each end the run with an error before any document
\* is processed and without output.
C12_EveryInputErrorFatal ==
    (/\ pc \notin {"idle", "start"}
     /\ \/ ~args.input_dir_exists
        \/ ~ManifestLoads(args.manifest)
        \/ NoNamedFilePresent)
        => pc = "failed" /\ NothingProcessed

\* C12: the run ends with FileNotFoundError, before any document is processed
\* and without output, exactly when the input directory is missing, or
\* input.json cannot be used and the directory holds no PDF, or input.json
\* loads and none of the files it names is present; an input.json that is
\* missing or invalid is by itself not fatal.
C12_FatalInputErrors ==
    pc \notin {"idle", "start"} =>
        /\ (\/ ~args.input_dir_exists
            \/ ~ManifestLoads(args.manifest) /\ NoPdfInDirectory
            \/ NoNamedFilePresent)
               <=> RaisedError("FileNotFoundError")
        /\ RaisedError("FileNotFoundError") => NothingProcessed

\* C12 witness: the directory exists, input.json is missing, the directory
\* holds a file but no PDF, and the run ended with FileNotFoundError
C12_Witness ==
    /\ RaisedError("FileNotFoundError")
    /\ args.input_dir_exists
    /\ args.manifest.status = "missing"
    /\ args.listing # <<>>

\* C27: when process_documents is at the relevance-scoring step, persona and
\* job_to_be_done are texts, also in a run whose input.json did not load,
\* whose files came from the listing of the directory and that was given
\* neither a persona nor a job.
C27_PersonaAndJobDefinedAtScoring ==
    pc = "rank" => persona # <<>> /\ job_to_be_done # <<>>

\* the steps of process_documents behind the one named
Behind(step) ==
    CASE step = "filter" -> {"balance", "analyze", "format", "done"}
      [] step = "balance" -> {"analyze", "format", "done"}
      [] step = "analyze" -> {"format", "done"}

\* C28: filter_and_deduplicate_sections, given the ranked sections of a run
\* (never an empty list, as the run ends before without sections), returns a
\* list that is not empty and begins with the first ranked section; the
\* balanced list and the sub-section analysis made of it are not empty.
C28_FirstSectionSurvives ==
    /\ pc \in Behind("filter") =>
           /\ ranked_sections # <<>>
           /\ filtered_sections # <<>>
           /\ filtered_sections[1] = ranked_sections[1]
    /\ pc \in Behind("balance") => balanced_sections # <<>>
    /\ pc \in Behind("analyze") => sub_section_analysis # <<>>

\* C28 witness: a run ended in which the filter dropped ranked sections and
\* kept the first
C28_Witness ==
    /\ pc = "done"
    /\ Len(filtered_sections) < Len(ranked_sections)
    /\ filtered_sections[1] = ranked_sections[1]
    /\ balanced_sections # <<>>
    /\ sub_section_analysis # <<>>

---------------------------------------------------------------------------
(* Properties of process on one extractor *)

\* the documents process returned for so far
Processed == {k \in 1..Len(result) : "outline" \in DOMAIN result[k]}

\* block j is a block without bold on the visual line of block i and beside
\* it: the vertical centres differ by at most 5, and j ends within 15 of the
\* start of i or starts within 15 of the end of i
BesideOnLine(blocks, i, j) ==
    LET Abs(x) == IF x < 0 THEN -x ELSE x
        b == blocks[i]
        o == blocks[j]
    IN  /\ i # j
        /\ b.page = o.page
        /\ ~o.is_bold
        /\ Abs((b.bbox[2] + b.bbox[4]) - (o.bbox[2] + o.bbox[4])) <= 10
        /\ \/ Abs(b.bbox[1] - o.bbox[3]) <= 15
           \/ Abs(b.bbox[3] - o.bbox[1]) <= 15

\* an outline entry that can be made of the block
EntryFrom(entry, block) ==
    /\ entry.text = block.text
    /\ entry.page = block.page
    /\ entry.size = block.size
    /\ entry.font = block.font
    /\ entry.is_bold = block.is_bold

ProcessedAlone == [doc \in ProcessDocuments |-> Process(doc, <<>>)]

Alone(doc) == ProcessedAlone[doc]

\* C18: whatever was processed before it, with or without an error, a document
\* gets the blocks, the title and the outline it gets from an extractor that
\* has processed nothing, and after it the statistics of the extractor are
\* those of that document; a document that raises leaves one entry and no more.
C18_DocumentResultOwnStatistics ==
    /\ Len(result) = doc_idx
    /\ \A k \in 1..Len(result) :
           IF args.docs[k].readable
           THEN /\ k \in Processed
                /\ result[k].all_raw_blocks = Alone(args.docs[k]).all_raw_blocks
                /\ result[k].title = Alone(args.docs[k]).title
                /\ result[k].outline = Alone(args.docs[k]).outline
           ELSE result[k] = [error |-> "Exception"]
    /\ (doc_idx > 0 /\ args.docs[doc_idx].readable)
           => global_stats = Alone(args.docs[doc_idx]).global_stats

\* C18 witness: after a document with body text of 10 points, whose heading of
\* 12 points is in its outline, a document with body text of 14 points was
\* processed, and its block of 12 points is in no outline
C18_Witness ==
    /\ Len(result) = 2
    /\ Processed = {1, 2}
    /\ result[1].outline # <<>>
    /\ result[1].outline[1].size = 12
    /\ \E i \in 1..Len(result[2].all_raw_blocks) : result[2].all_raw_blocks[i].size = 12
    /\ result[2].outline = <<>>
    /\ global_stats.body_text_size = 14

---------------------------------------------------------------------------
(* section_ranker.py: refine_section_text *)

Refined == call = "refine_section_text"

\* the filter removed more than 70% of the characters of the content
OverFiltered ==
    /\ Refined
    /\ Get(args.section, "content", <<>>) # <<>>
    /\ 10 * Len(FilteredText(args.section, args.domain))
           < 3 * Len(Get(args.section, "content", <<>>))

Ellipsis == <<".", ".", ".">>

\* C15 as stated: whenever the filter removed more than 70% of the characters,
\* the result is the first 1000 characters of the content followed by an ellipsis
C15_OverFilteredCutWithEllipsis ==
    OverFiltered =>
        result = Slice(Get(args.section, "content", <<>>), 1, MaxUnrefinedLength)
                     \o Ellipsis

\* C15: whenever the filter removed more than 70% of the characters, the result
\* is never the filtered text: it is the content itself when the content has at
\* most 1000 characters, and its first 1000 characters followed by an ellipsis
\* when it has more
C15_OverFilteredFallsBackToContent ==
    OverFiltered =>
        LET content == Get(args.section, "content", <<>>)
        IN  /\ result # FilteredText(args.section, args.domain)
            /\ Len(content) <= MaxUnrefinedLength => result = content
            /\ Len(content) > MaxUnrefinedLength =>
                   result = Slice(content, 1, MaxUnrefinedLength) \o Ellipsis

\* an over-filtered content of more than 1000 characters with a kept sentence
C15_Witness ==
    /\ OverFiltered
    /\ Len(Get(args.section, "content", <<>>)) > MaxUnrefinedLength
    /\ FilteredText(args.section, args.domain) # <<>>
    /\ Len(result) = MaxUnrefinedLength + 3

---------------------------------------------------------------------------
(* relevance_scorer.py: the learned expander in analyze_persona_and_job *)

\* the expander is missing or a call of it raises
ExpanderFails(env) ==
    \/ ~env.import_ok
    \/ ~env.construct_ok
    \/ env.expand_persona.raises
    \/ env.expand_job.raises
    \/ env.domain_terms.raises

\* C19: when the module of the learned expander cannot be imported, its
\* constructor raises, or one of expand_keywords and get_domain_specific_terms
\* raises, analyze_persona_and_job completes, keeps the two texts, and leaves
\* as persona and job keywords the sets of the rule-based expansion of the
\* keywords of the two texts.
C19_ExpanderFailureFallsBack ==
    (call = "analyze_persona_and_job" /\ ExpanderFails(args.env)) =>
        LET rule_based == FallbackKeywordExpansion(
                              ExtractKeywordsFromText(args.persona),
                              ExtractKeywordsFromText(args.job_to_be_done))
        IN  /\ DOMAIN result = {"persona_keywords", "job_keywords",
                                "original_persona", "original_job"}
            /\ result.persona_keywords = rule_based.persona_keywords
            /\ result.job_keywords = rule_based.job_keywords
            /\ result.original_persona = args.persona
            /\ result.original_job = args.job_to_be_done

\* C19 witness: the expander was built and expanded both keyword lists, then
\* get_domain_specific_terms raised; the persona keywords are the two words of
\* the persona and the first five related terms of each
C19_Witness ==
    /\ call = "analyze_persona_and_job"
    /\ args.env.import_ok /\ args.env.construct_ok
    /\ ~args.env.expand_persona.raises /\ ~args.env.expand_job.raises
    /\ args.env.domain_terms.raises
    /\ args.persona = <<"I", "n", "v", "e", "s", "t", "m", "e", "n", "t", " ", "A", "n", "a", "l", "y", "s", "t">>
    /\ result.persona_keywords =
           {<<"i", "n", "v", "e", "s", "t", "m", "e", "n", "t">>, <<"a", "n", "a", "l", "y", "s", "t">>, <<"t", "r", "e", "n", "d", "s">>, <<"a", "n", "a", "l", "y", "s", "i", "s">>, <<"f", "i", "n", "a", "n", "c", "i", "a", "l">>,
            <<"r", "e", "v", "e", "n", "u", "e">>, <<"g", "r", "o", "w", "t", "h">>, <<"p", "r", "o", "f", "i", "t">>, <<"m", "a", "r", "k", "e", "t">>}

---------------------------------------------------------------------------
(* relevance_scorer.py: the rule-based expansion of the two keyword lists *)

\* the keywords of a text that are keys of the table of related terms
SeedsOf(text) == ToSet(ExtractKeywordsFromText(text)) \cap DomainMappingKeys

\* the first n related terms of a seed
FirstRelated(k, n) == {DomainMapping(k)[i] : i \in (1..n) \cap DOMAIN DomainMapping(k)}

---------------------------------------------------------------------------
(* Properties of _extract_section_content *)

ContentExtracted == call = "_extract_section_content"

\* the page of the next heading, the last page for the last heading
EndPage ==
    IF args.next_heading = <<>> THEN Len(args.doc) ELSE args.next_heading[1].page

\* the pages a marker of which is in the content returned
PagesInContent ==
    {p \in 1..Len(args.doc) :
        \E letter \in {"a", "m", "z"} : Contains(result, Marker(letter, p))}

HeadingNotOnStartPage ==
    ~Contains(args.doc[args.current_heading.page], args.current_heading.text)

\* there is a next heading and its text is nowhere on its page
NextHeadingNotOnEndPage ==
    /\ args.next_heading # <<>>
    /\ ~Contains(args.doc[EndPage], args.next_heading[1].text)

\* C21: _extract_section_content returns a text; when the text of the heading
\* is not on the start page the content holds that page from its first word,
\* and when the text of the next heading is not on the end page the content
\* holds that page to its last word.
C21_FailedMatchKeepsPageWhole ==
    ContentExtracted =>
        /\ result \in Seq({result[i] : i \in 1..Len(result)})
        /\ HeadingNotOnStartPage =>
               Contains(result, Marker("a", args.current_heading.page))
        /\ NextHeadingNotOnEndPage => Contains(result, Marker("z", EndPage))
        /\ (HeadingNotOnStartPage /\ NextHeadingNotOnEndPage) =>
               \A p \in args.current_heading.page..EndPage :
                   \A letter \in {"a", "m", "z"} :
                       Contains(args.doc[p], Marker(letter, p))
                           => Contains(result, Marker(letter, p))

\* C21 witness: neither the heading of page 1 nor the next heading of page 2
\* is found on its page, and the content is both pages whole
C21_Witness ==
    /\ ContentExtracted
    /\ args.current_heading.page = 1
    /\ EndPage = 2
    /\ HeadingNotOnStartPage
    /\ NextHeadingNotOnEndPage
    /\ result = <<"a", "1", " ", "m", "1", " ", "z", "1", " ", "a", "2", " ", "m", "2", " ", "z", "2">>

---------------------------------------------------------------------------
(* 1A.py: the merge pass *)

\* the four conditions on a block and the block behind it
MayMerge(a, b) ==
    LET dy == (a.bbox[2] + a.bbox[4]) - (b.bbox[2] + b.bbox[4])
        gap == b.bbox[1] - a.bbox[3]
    IN  /\ 10 * a.size <= 12 * b.size /\ 10 * b.size <= 12 * a.size
        /\ a.is_bold = b.is_bold \/ (Len(a.text) <= 15 /\ Len(b.text) <= 15)
        /\ -6 <= dy /\ dy <= 6
        /\ 0 <= gap /\ gap <= 20

\* the ways to put the members of a group in order
OrdersOf(n) == {f \in [1..n -> 1..n] : \A i, j \in 1..n : f[i] = f[j] => i = j}

\* block is what the claim makes of the members: their texts from left to
\* right with single spaces between, the box around their boxes, bold when
\* one of them is
MergedFrom(block, members) ==
    LET n == Len(members)
    IN  /\ \E f \in OrdersOf(n) :
               /\ \A i \in 1..(n - 1) :
                      members[f[i]].bbox[1] <= members[f[i + 1]].bbox[1]
               /\ block.text = Join([i \in 1..n |-> members[f[i]].text], <<" ">>)
        /\ \A i \in 1..n :
               /\ block.bbox[1] <= members[i].bbox[1]
               /\ block.bbox[2] <= members[i].bbox[2]
               /\ block.bbox[3] >= members[i].bbox[3]
               /\ block.bbox[4] >= members[i].bbox[4]
        /\ \A k \in 1..4 : \E i \in 1..n : block.bbox[k] = members[i].bbox[k]
        /\ block.is_bold <=> \E i \in 1..n : members[i].is_bold

\* C26: the blocks merge_nearby_blocks returns are the blocks given, cut into
\* groups of blocks that follow each other; a block alone comes back as it
\* is; in a group of several each block and the one behind it have a size
\* ratio of at most 1.2, the same bold state or texts of at most 15
\* characters both, vertical centres at most 3 apart and a gap of 0 to 20
\* from the end of the first to the start of the second, and the block of
\* the group has the members' texts from left to right joined by single
\* spaces, the box around their boxes, and is bold exactly when a member is.
C26_MergeOnlyNearAndJoin ==
    call = "merge_nearby_blocks" =>
        LET blocks == args.blocks
            n == Len(blocks)
        IN  IF n = 0 THEN result = <<>>
            ELSE \E cuts \in SUBSET (2..n) :
                     LET starts == Ascending(cuts \cup {1})
                         EndOf(k) == IF k = Len(starts) THEN n ELSE starts[k + 1] - 1
                     IN  /\ Len(result) = Len(starts)
                         /\ \A k \in 1..Len(starts) :
                                IF starts[k] = EndOf(k)
                                THEN result[k] = blocks[starts[k]]
                                ELSE /\ \A i \in starts[k]..(EndOf(k) - 1) :
                                            MayMerge(blocks[i], blocks[i + 1])
                                     /\ MergedFrom(result[k],
                                                   SubSeq(blocks, starts[k], EndOf(k)))

\* C26 witness: three blocks came back as one; the first is not bold, the
\* other two are, and the merged block is bold with the three texts in a row
C26_Witness ==
    /\ call = "merge_nearby_blocks"
    /\ Len(args.blocks) = 3
    /\ ~args.blocks[1].is_bold /\ args.blocks[2].is_bold
    /\ Len(result) = 1
    /\ result[1].text = <<"w", "e", " ", "n", "o", "t", "e", " ", "I", "m", "p", "o", "r", "t", "a", "n", "t", " ", "T", "i", "t", "l", "e">>
    /\ result[1].is_bold
    /\ result[1].bbox = <<50, 200, 200, 210>>

=============================================================================
